---- MODULE Spec2Model ----
(***************************************************************************)
(* A model of the votegral tally engine: the ledger, ballot construction,  *)
(* the verifiable shuffle chain, the distributed deterministic tag (DDT)   *)
(* protocol and the tally orchestrator.                                    *)
(*                                                                         *)
(* The curve group is modelled as the additive group of integers modulo    *)
(* the prime Q: the point p stands for p*G, the base point G is 1 and the  *)
(* identity is 0.  Zero-knowledge proofs and signatures of the kyber       *)
(* library are modelled by their contract: a proof verifies exactly for    *)
(* the context tag, predicate and public points it was generated for, and  *)
(* it can be generated only from a witness that satisfies the predicate.   *)
(***************************************************************************)
EXTENDS Integers, Sequences, FiniteSets, TLC

(* ------------------------------------------------------------------ *)
(* Bounds of the model                                                 *)
(* ------------------------------------------------------------------ *)
NumVoters == 2
MaxFake == 1
MaxSeed == 1
EAMembers == 2
MaxBatch == 2
MaxMsg == 2
MaxRand == 2
MaxRerun == 1
MaxItems == 3
MaxCores == 2
MaxShares == 3
\* The threshold of the parallel path: 101 in the package, scaled to the item bound.
minItemsForParallel == 2

(* ------------------------------------------------------------------ *)
(* Group and scalar arithmetic (crypto.Suite)                          *)
(* ------------------------------------------------------------------ *)
\* Order of the prime-order group: a small prime stands for the order of Ed25519.
Q == 13
Points == 0..(Q - 1)
Scalars == 0..(Q - 1)
G == 1
Null == 0

\* Go's nil: a nil pointer, and the nil value of the Point and Scalar interfaces,
\* which is no element of the group.
Nil == [nil |-> TRUE]
NilPoint == Q

Add(a, b) == (a + b) % Q
Sub(a, b) == (a + Q - b) % Q
Neg(a) == (Q - a) % Q
Mul(s, p) == (s * p) % Q

\* Point.String(): the hexadecimal text of the canonical encoding, two digits here.
PointString(p) == <<p \div 16, p % 16>>

(* ------------------------------------------------------------------ *)
(* The seeded random stream (crypto.RandomStream)                      *)
(* ------------------------------------------------------------------ *)
\* The n-th output block of the extendable-output function keyed with the seed.
XOF(seed, n) ==
    (90 * (seed + 1) * (n + 1) * (n + 1) * (n + 1) + 177 * (seed + 3) * (n + 1) * (n + 1)
       + 190 * n + 156 * seed) % 1009

\* Scalar().Pick(stream): the scalar read at position n.  The zero scalar, which
\* the code draws with probability 1/order, is not drawn.
Pick(seed, n) == (XOF(seed, n) % (Q - 1)) + 1

\* random.Int(bound, stream): an integer in 0..bound-1 read at position n.
RandInt(seed, n, bound) == XOF(seed, n) % bound

\* A key pair is a fresh scalar: the first scalar from the stream value onwards that
\* is not in use (two draws of the code collide with probability 1/order).
RECURSIVE FreshFrom(_, _)
FreshFrom(s, used) ==
    IF s \notin used THEN s ELSE FreshFrom((s % (Q - 1)) + 1, used)

FreshKey(seed, n, used) == FreshFrom(Pick(seed, n), used)

(* ------------------------------------------------------------------ *)
(* Fiat-Shamir proofs of the kyber proof package                       *)
(* ------------------------------------------------------------------ *)
BadProof == [ctx |-> "invalid"]

\* Whether the secrets are a witness of the predicate over the public points.
Satisfied(pred, pts, sec) ==
    CASE pred = "EncCred" ->
            /\ pts.C1 = Mul(sec.x, pts.G)
            /\ pts.X = Mul(sec.x, pts.eaPk)
      [] pred = "Vote" ->
            /\ pts.C1 = Mul(sec.x, pts.G)
            /\ IF sec.choice = 0
                 THEN pts.C2 = Mul(sec.x, pts.eaPk)
                 ELSE pts.C2Prime = Mul(sec.x, pts.eaPk)
      [] pred = "Dec" ->
            /\ pts.X = Mul(sec.sk, pts.C1)
            /\ pts.Pk = Mul(sec.sk, pts.G)
      [] pred = "Round1" ->
            pts.S = Mul(sec.s, pts.B)
      [] pred = "Round2" ->
            /\ pts.S = Mul(sec.s, pts.B)
            /\ pts.K = Mul(sec.k, pts.B)
            /\ pts.C1_new = Mul(sec.s, pts.C1_old)
            /\ pts.C2_new = Add(Mul(sec.s, pts.C2_old), Mul(sec.sk, pts.C1_old_neg))
      [] pred = "Shuffle" ->
            /\ Len(sec.pi) = Len(pts.XUp)
            /\ \A i \in 1..Len(pts.XUp) :
                 /\ pts.XDown[i] = Add(pts.XUp[sec.pi[i]], Mul(sec.beta[i], pts.G))
                 /\ pts.YDown[i] = Add(pts.YUp[sec.pi[i]], Mul(sec.beta[i], pts.H))
      [] OTHER -> FALSE

\* proof.HashProve: the proof bytes for a statement, valid only with a witness.
HashProve(ctx, pred, pts, sec) ==
    IF Satisfied(pred, pts, sec)
      THEN [ctx |-> ctx, pred |-> pred, pts |-> pts]
      ELSE BadProof

\* proof.HashVerify: accepts the bytes generated for this very statement.
HashVerify(ctx, pred, pts, bytes) ==
    bytes = [ctx |-> ctx, pred |-> pred, pts |-> pts]

(* ------------------------------------------------------------------ *)
(* Schnorr signatures (crypto.SchnorrSignature)                        *)
(* ------------------------------------------------------------------ *)
\* schnorr.Sign: signature bytes bind the signer's key and the message.
SchnorrSign(sk, msg) == [signer |-> Mul(sk, G), msg |-> msg]

NewSchnorrSignature(sk, pk, msg) == [Pk |-> pk, Sig |-> SchnorrSign(sk, msg)]

\* SchnorrSignature.Verify: nil error iff the bytes were made over msg with Pk's key.
SchnorrVerify(s, msg) == s.Sig = [signer |-> s.Pk, msg |-> msg]

(* ------------------------------------------------------------------ *)
(* ElGamal primitives                                                  *)
(* ------------------------------------------------------------------ *)
\* An encryption that blinds the message with x*G whatever the key.
ElGamalEncryptPointUnderG(Pk, M, x) ==
    [ct |-> [C1 |-> Mul(x, G), C2 |-> Add(M, Mul(x, G))],
     X |-> Mul(x, G),
     x |-> x]

\* ElGamalEncryptPoint with the ephemeral scalar x read from the stream.
ElGamalEncryptPoint(Pk, M, x) ==
    [ct |-> [C1 |-> Mul(x, G), C2 |-> Add(M, Mul(x, Pk))],
     X |-> Mul(x, Pk),
     x |-> x]

\* ElGamalCiphertext.Decrypt: M = C2 - sk*C1, with the shared secret X = sk*C1; an
\* error for a nil ciphertext, component or key.
\* A decryption that checks the ciphertext but not the private key.
DecryptUncheckedKey(ct, sk) ==
    IF ct = Nil \/ ct.C1 = NilPoint \/ ct.C2 = NilPoint
      THEN [M |-> NilPoint, X |-> NilPoint,
            err |-> "crypto: decrypting uninitialized ElGamal ciphertext or private key"]
      ELSE [M |-> Sub(ct.C2, Mul(sk, ct.C1)), X |-> Mul(sk, ct.C1), err |-> "nil"]

Decrypt(ct, sk) ==
    IF ct = Nil \/ ct.C1 = NilPoint \/ ct.C2 = NilPoint \/ sk = NilPoint
      THEN [M |-> NilPoint, X |-> NilPoint,
            err |-> "crypto: decrypting uninitialized ElGamal ciphertext or private key"]
      ELSE [M |-> Sub(ct.C2, Mul(sk, ct.C1)), X |-> Mul(sk, ct.C1), err |-> "nil"]

\* NewElGamalProof: the proof object keeps the predicate and the points it was made for.
NewElGamalProof(pred, pts, sec) ==
    [predicate |-> pred, points |-> pts, Proof |-> HashProve("", pred, pts, sec)]

\* ElGamalProof.Verify: checks the bytes against the object's own predicate and points.
ElGamalProofVerify(p) == HashVerify("", p.predicate, p.points, p.Proof)

\* ElGamalCiphertext.DecryptWithProof.
DecryptWithProof(ct, Pk, sk) ==
    LET d == Decrypt(ct, sk)
    IN  [M |-> d.M,
         proof |-> NewElGamalProof("Dec",
                       [X |-> d.X, C1 |-> ct.C1, Pk |-> Pk, G |-> G], [sk |-> sk])]

\* ElGamalCiphertext.MultiKeyDecryptWithProof: each share replaces C2 by its partial
\* decryption; the result is the last C2 and one proof per share.
RECURSIVE MultiKeyDecryptFromStart(_, _, _)
MultiKeyDecryptFromStart(ct, shares, i) ==
    IF i > Len(shares) THEN [M |-> ct.C2, proofs |-> <<>>]
    ELSE LET d == DecryptWithProof(ct, shares[i].Pk, shares[i].Sk)
             rest == MultiKeyDecryptFromStart(ct, shares, i + 1)
         IN  [M |-> IF i = Len(shares) THEN d.M ELSE rest.M,
              proofs |-> <<d.proof>> \o rest.proofs]

RECURSIVE MultiKeyDecrypt(_, _, _)
MultiKeyDecrypt(ct, shares, i) ==
    IF i > Len(shares) THEN [M |-> ct.C2, proofs |-> <<>>]
    ELSE LET d == DecryptWithProof(ct, shares[i].Pk, shares[i].Sk)
             rest == MultiKeyDecrypt([C1 |-> ct.C1, C2 |-> d.M], shares, i + 1)
         IN  [M |-> rest.M, proofs |-> <<d.proof>> \o rest.proofs]

MultiKeyDecryptWithProof(ct, shares) == MultiKeyDecrypt(ct, shares, 1)

(* ------------------------------------------------------------------ *)
(* Distributed deterministic tags (crypto/ddt.go)                      *)
(* ------------------------------------------------------------------ *)
\* NewTallier: the long-term share, its public key and the fresh secret s_i.
\* ElGamalComponentsToCiphertext: pairs the components position by position; lists of
\* different length give an error and the nil slice, which is the empty list.
ElGamalComponentsToCiphertext(C1s, C2s) ==
    IF Len(C1s) # Len(C2s)
      THEN [ciphertexts |-> <<>>, err |-> "len(C1s) != len(C2s)"]
      ELSE [ciphertexts |-> [i \in 1..Len(C1s) |-> [C1 |-> C1s[i], C2 |-> C2s[i]]],
            err |-> "nil"]

NewTallier(id, secretShare, fresh) ==
    [ID |-> id, SecretShare |-> secretShare,
     PublicKey |-> Mul(secretShare, G), FreshSecret |-> fresh]

\* Tallier.PerformRound1: S_i = s_i*B with the proof of knowledge of s_i.
PerformRound1(t) ==
    LET S == Mul(t.FreshSecret, G)
        public == [S |-> S, B |-> G]
    IN  [TallierID |-> t.ID,
         PublicCommitment |-> S,
         ProofOfKnowledge |->
            [Proof |-> HashProve("Round1Knowledge", "Round1", public, [s |-> t.FreshSecret]),
             Public |-> public]]

\* A re-masking that forgets the partial decryption with the share k_i.
remaskNoPartialDecryption(t, C1, C2) ==
    [newC1 |-> Mul(t.FreshSecret, C1), newC2 |-> Mul(t.FreshSecret, C2)]

\* Tallier.remaskCiphertext: C1' = s*C1, C2' = s*(C2 - k*C1).
remaskCiphertext(t, C1, C2) ==
    [newC1 |-> Mul(t.FreshSecret, C1),
     newC2 |-> Mul(t.FreshSecret, Sub(C2, Mul(t.SecretShare, C1)))]

\* The public point map of the combined Round 2 statement.
Round2Public(S, K, C1_old, C2_old, C1_new, C2_new) ==
    [B |-> G, S |-> S, K |-> K, C1_old |-> C1_old, C2_old |-> C2_old,
     C1_new |-> C1_new, C2_new |-> C2_new, C1_old_neg |-> Neg(C1_old)]

\* Tallier.proveRound2: one combined proof with the secrets s, k and s*k.
proveRound2(t, publicCommitment, C1_old, C2_old, C1_new, C2_new) ==
    LET public == Round2Public(publicCommitment, t.PublicKey, C1_old, C2_old, C1_new, C2_new)
    IN  [Proof |-> HashProve("Round2Combined", "Round2", public,
                       [s |-> t.FreshSecret, k |-> t.SecretShare,
                        sk |-> Mul(t.FreshSecret, t.SecretShare)]),
         Public |-> public]

\* Tallier.PerformRound2: the order-preserving map of the worker over the ciphertexts.
\* Lists of different length give the error "input C1 and C2 slices must have the same
\* length" and the nil bundle; no other error arises here, so the bundle is nil exactly
\* when an error is returned.
PerformRound2(t, prevC1s, prevC2s) ==
    LET S == Mul(t.FreshSecret, G)
        res == [i \in 1..Len(prevC1s) |-> remaskCiphertext(t, prevC1s[i], prevC2s[i])]
    IN  IF Len(prevC1s) # Len(prevC2s) THEN Nil ELSE
        [TallierID |-> t.ID,
         UpdatedC1s |-> [i \in 1..Len(prevC1s) |-> res[i].newC1],
         UpdatedC2s |-> [i \in 1..Len(prevC1s) |-> res[i].newC2],
         RemaskingProofs |->
            [i \in 1..Len(prevC1s) |->
                proveRound2(t, S, prevC1s[i], prevC2s[i], res[i].newC1, res[i].newC2)]]

\* performRound1Chain: every tallier's commitment is added to every C2.
RECURSIVE Round1Chain(_, _, _)
Round1Chain(C2s, talliers, i) ==
    IF i > Len(talliers) THEN [C2s |-> C2s, history |-> <<>>]
    ELSE LET bundle == PerformRound1(talliers[i])
             rest == Round1Chain([j \in 1..Len(C2s) |-> Add(C2s[j], bundle.PublicCommitment)],
                                 talliers, i + 1)
         IN  [C2s |-> rest.C2s, history |-> <<bundle>> \o rest.history]

performRound1Chain(initialC2s, talliers) == Round1Chain(initialC2s, talliers, 1)

\* performRound2Chain: the output of each tallier is the input of the next.
RECURSIVE Round2Chain(_, _, _, _)
Round2Chain(C1s, C2s, talliers, i) ==
    IF i > Len(talliers) THEN [C1s |-> C1s, C2s |-> C2s, history |-> <<>>]
    ELSE LET bundle == PerformRound2(talliers[i], C1s, C2s)
             rest == Round2Chain(bundle.UpdatedC1s, bundle.UpdatedC2s, talliers, i + 1)
         IN  [C1s |-> rest.C1s, C2s |-> rest.C2s, history |-> <<bundle>> \o rest.history]

performRound2Chain(initialC1s, initialC2s, talliers) ==
    Round2Chain(initialC1s, initialC2s, talliers, 1)

\* GenerateDeterministicTags: Round 1, then Round 2; the last C2s are the tags.
GenerateDeterministicTags(initialC1s, initialC2s, talliers) ==
    IF Len(initialC1s) = 0
      THEN [tags |-> <<>>, proof |-> [Round1Bundles |-> <<>>, Round2Bundles |-> <<>>]]
      ELSE LET r1 == performRound1Chain(initialC2s, talliers)
               r2 == performRound2Chain(initialC1s, r1.C2s, talliers)
           IN  [tags |-> r2.C2s,
                proof |-> [Round1Bundles |-> r1.history, Round2Bundles |-> r2.history]]

\* VerifyRound1Bundle: the proof of knowledge against the bundle's own public map.
VerifyRound1Bundle(bundle) ==
    HashVerify("Round1Knowledge", "Round1",
               bundle.ProofOfKnowledge.Public, bundle.ProofOfKnowledge.Proof)

\* A Round 2 check that takes the new points from the proof's own map, not the bundle.
verifySingleRound2ProofOwnPoints(prevC1s, prevC2s, publicCommitment, tallierPublicKey, bundle, index) ==
    HashVerify("Round2Combined", "Round2",
               bundle.RemaskingProofs[index].Public, bundle.RemaskingProofs[index].Proof)

\* verifySingleRound2Proof: the verifier rebuilds the public map from what it holds.
verifySingleRound2Proof(prevC1s, prevC2s, publicCommitment, tallierPublicKey, bundle, index) ==
    HashVerify("Round2Combined", "Round2",
               Round2Public(publicCommitment, tallierPublicKey,
                            prevC1s[index], prevC2s[index],
                            bundle.UpdatedC1s[index], bundle.UpdatedC2s[index]),
               bundle.RemaskingProofs[index].Proof)

\* The loop of ForEach over the proofs of a bundle from position index on, on the
\* sequential path: the first failure ends it. Reading bundle.UpdatedC1s[index] or
\* bundle.UpdatedC2s[index] past the end of the slice is a run-time panic.
RECURSIVE verifyRound2ProofsFrom(_, _, _, _, _, _)
verifyRound2ProofsFrom(prevC1s, prevC2s, publicCommitment, tallierPublicKey, bundle, index) ==
    IF index > Len(bundle.RemaskingProofs) THEN "nil"
    ELSE IF index > Len(bundle.UpdatedC1s) \/ index > Len(bundle.UpdatedC2s)
      THEN "panic: index out of range"
    ELSE IF ~verifySingleRound2Proof(prevC1s, prevC2s, publicCommitment,
                                     tallierPublicKey, bundle, index)
      THEN "combined proof failed"
    ELSE verifyRound2ProofsFrom(prevC1s, prevC2s, publicCommitment,
                                tallierPublicKey, bundle, index + 1)

\* The outcome of VerifyRound2Bundle: only the number of proofs is compared with the
\* number of input ciphertexts.
VerifyRound2BundleErr(prevC1s, prevC2s, publicCommitment, tallierPublicKey, bundle) ==
    IF Len(prevC1s) # Len(bundle.RemaskingProofs) \/ Len(prevC2s) # Len(bundle.RemaskingProofs)
      THEN "mismatch in ciphertext and proof counts"
      ELSE verifyRound2ProofsFrom(prevC1s, prevC2s, publicCommitment,
                                  tallierPublicKey, bundle, 1)

\* VerifyRound2Bundle: TRUE when the function returns a nil error.
VerifyRound2Bundle(prevC1s, prevC2s, publicCommitment, tallierPublicKey, bundle) ==
    VerifyRound2BundleErr(prevC1s, prevC2s, publicCommitment, tallierPublicKey, bundle) = "nil"

\* The C2s after Round 1 as the verifier recomputes them from the published commitments.
RECURSIVE R1FinalC2s(_, _, _)
R1FinalC2s(C2s, bundles, i) ==
    IF i > Len(bundles) THEN C2s
    ELSE R1FinalC2s([j \in 1..Len(C2s) |-> Add(C2s[j], bundles[i].PublicCommitment)],
                    bundles, i + 1)

\* The Round 2 loop of VerifyDeterministicTagProof from bundle i on: the Round 1
\* bundle and the tallier at the same index are read without a check of the lengths,
\* and reading past the end of either slice is a run-time panic.
RECURSIVE VerifyRound2FromErr(_, _, _, _, _)
VerifyRound2FromErr(C1s, C2s, talliers, fullProof, i) ==
    IF i > Len(fullProof.Round2Bundles) THEN "nil"
    ELSE IF i > Len(fullProof.Round1Bundles) THEN "panic: index out of range"
    ELSE IF fullProof.Round1Bundles[i].TallierID # fullProof.Round2Bundles[i].TallierID
      THEN "mismatched tallier IDs between round 1 and 2 bundles"
    ELSE IF i > Len(talliers) THEN "panic: index out of range"
    ELSE LET err == VerifyRound2BundleErr(C1s, C2s, fullProof.Round1Bundles[i].PublicCommitment,
                                          talliers[i].PublicKey, fullProof.Round2Bundles[i])
         IN  IF err = "panic: index out of range" THEN err
             ELSE IF err # "nil" THEN "verification of Round 2 bundle failed"
             ELSE VerifyRound2FromErr(fullProof.Round2Bundles[i].UpdatedC1s,
                                      fullProof.Round2Bundles[i].UpdatedC2s,
                                      talliers, fullProof, i + 1)

\* The outcome of VerifyDeterministicTagProof: every Round 1 bundle there is, then
\* every Round 2 bundle there is.
VerifyDeterministicTagProofErr(initialC1s, initialC2s, talliers, fullProof) ==
    IF \E i \in 1..Len(fullProof.Round1Bundles) : ~VerifyRound1Bundle(fullProof.Round1Bundles[i])
      THEN "verification of Round 1 bundle failed"
      ELSE VerifyRound2FromErr(initialC1s,
                               R1FinalC2s(initialC2s, fullProof.Round1Bundles, 1),
                               talliers, fullProof, 1)

\* VerifyDeterministicTagProof: TRUE when the function returns a nil error.
VerifyDeterministicTagProof(initialC1s, initialC2s, talliers, fullProof) ==
    VerifyDeterministicTagProofErr(initialC1s, initialC2s, talliers, fullProof) = "nil"

(* ------------------------------------------------------------------ *)
(* Verifiable shuffles (crypto/shuffle.go)                             *)
(* ------------------------------------------------------------------ *)
Swap(f, a, b) == [f EXCEPT ![a] = f[b], ![b] = f[a]]

\* The Fisher-Yates loop: for i = k-1 down to 1 draw j in 0..i and swap pi[i], pi[j].
\* Positions are kept 1-based here.
RECURSIVE FisherYates(_, _, _, _)
FisherYates(pi, i, seed, pos) ==
    IF i < 1 THEN pi
    ELSE LET j == RandInt(seed, pos, i + 1)
         IN  FisherYates(IF j # i THEN Swap(pi, i + 1, j + 1) ELSE pi, i - 1, seed, pos + 1)

Permutation(k, seed, pos) == FisherYates([i \in 1..k |-> i], k - 1, seed, pos)

\* The re-encryption scalars beta[j][i], drawn after the permutation.
Beta(NQ, k, seed, pos) ==
    [j \in 1..NQ |-> [i \in 1..k |-> Pick(seed, pos + (k - 1) + (j - 1) * k + (i - 1))]]

\* Stream reads of one shuffle of NQ sequences of k pairs.
ShuffleReads(NQ, k) == (k - 1) + NQ * k

\* A shuffle that reads the second sequence through the reversed permutation.
SourceIndexPerSequence(pi, j, i) == IF j = 1 THEN pi[i] ELSE pi[Len(pi) + 1 - i]

\* The source position of output position i of sequence j: one permutation for all.
SourceIndex(pi, j, i) == pi[i]

\* The shuffle proper: Xbar[j][i] = X[j][pi[i]] + beta[j][pi[i]]*g, Ybar likewise with h.
ShuffleOutput(X, Y, h, pi, beta) ==
    [Xbar |-> [j \in 1..Len(X) |-> [i \in 1..Len(X[1]) |->
                  Add(Mul(beta[j][SourceIndex(pi, j, i)], G), X[j][SourceIndex(pi, j, i)])]],
     Ybar |-> [j \in 1..Len(X) |-> [i \in 1..Len(X[1]) |->
                  Add(Mul(beta[j][SourceIndex(pi, j, i)], h), Y[j][SourceIndex(pi, j, i)])]]]

\* The bytes written to the challenge hash: the key, then all inputs, then all outputs.
SerializePairs(X, Y) ==
    LET k == Len(X[1])
    IN  [n \in 1..(2 * k * Len(X)) |->
            LET j == ((n - 1) \div (2 * k)) + 1
                i == (((n - 1) % (2 * k)) \div 2) + 1
            IN  IF (n - 1) % 2 = 0 THEN X[j][i] ELSE Y[j][i]]

\* The hash state, a number below the modulus, after the bytes from position i on
\* are written in order.
RECURSIVE Absorb(_, _, _)
Absorb(bytes, i, acc) ==
    IF acc \notin 0..1008 \/ i > Len(bytes) THEN acc
    ELSE Absorb(bytes, i + 1, (acc * 31 + bytes[i] + 1) % 1009)

\* deriveNonInteractiveChallenge: NQ scalars read from the hash of the statement.
deriveNonInteractiveChallenge(eaPublicKey, X, Y, XBar, YBar) ==
    LET digest == Absorb(<<eaPublicKey>> \o SerializePairs(X, Y) \o SerializePairs(XBar, YBar), 1, 7)
    IN  [j \in 1..Len(X) |-> Pick(digest, j - 1)]

RECURSIVE Combine(_, _, _, _)
Combine(e, Z, i, j) ==
    IF j > Len(Z) THEN Null ELSE Add(Mul(e[j], Z[j][i]), Combine(e, Z, i, j + 1))

\* GetSequenceVerifiable: the e-weighted sums of the sequences, position by position.
GetSequenceVerifiable(X, Y, Xbar, Ybar, e) ==
    [XUp |-> [i \in 1..Len(X[1]) |-> Combine(e, X, i, 1)],
     YUp |-> [i \in 1..Len(X[1]) |-> Combine(e, Y, i, 1)],
     XDown |-> [i \in 1..Len(X[1]) |-> Combine(e, Xbar, i, 1)],
     YDown |-> [i \in 1..Len(X[1]) |-> Combine(e, Ybar, i, 1)]]

RECURSIVE CombineScalars(_, _, _, _)
CombineScalars(e, beta, src, j) ==
    IF j > Len(beta) THEN 0
    ELSE (e[j] * beta[j][src] + CombineScalars(e, beta, src, j + 1)) % Q

\* A consolidated witness that takes the randomness at the output position itself.
Beta2Unpermuted(e, beta, pi) == [i \in 1..Len(pi) |-> CombineScalars(e, beta, i, 1)]

\* The consolidated witness beta2[i] = sum_j e[j]*beta[j][pi[i]].
Beta2(e, beta, pi) == [i \in 1..Len(pi) |-> CombineScalars(e, beta, pi[i], 1)]

\* The statement of a pair shuffle handed to the prover and to the verifier.
ShuffleStatement(v, h) ==
    [XUp |-> v.XUp, YUp |-> v.YUp, XDown |-> v.XDown, YDown |-> v.YDown, G |-> G, H |-> h]

\* performSequenceShuffle: shuffle, derive e, prove the consolidated statement.
performSequenceShuffle(eaPublicKey, X, Y, seed, pos) ==
    LET pi == Permutation(Len(X[1]), seed, pos)
        beta == Beta(Len(X), Len(X[1]), seed, pos)
        out == ShuffleOutput(X, Y, eaPublicKey, pi, beta)
        e == deriveNonInteractiveChallenge(eaPublicKey, X, Y, out.Xbar, out.Ybar)
        v == GetSequenceVerifiable(X, Y, out.Xbar, out.Ybar, e)
    IN  [ShuffledC1s |-> out.Xbar, ShuffledC2s |-> out.Ybar,
         Proof |-> HashProve("Votegral-SequencesShuffle-v1", "Shuffle",
                             ShuffleStatement(v, eaPublicKey),
                             [pi |-> pi, beta |-> Beta2(e, beta, pi)]),
         ChallengeE |-> e]

\* The result a member can publish when it runs the steps of performSequenceShuffle
\* with a challenge vector e of its own choice in place of the derived one.
SequenceShuffleWithChallenge(eaPublicKey, X, Y, seed, pos, e) ==
    LET pi == Permutation(Len(X[1]), seed, pos)
        beta == Beta(Len(X), Len(X[1]), seed, pos)
        out == ShuffleOutput(X, Y, eaPublicKey, pi, beta)
        v == GetSequenceVerifiable(X, Y, out.Xbar, out.Ybar, e)
    IN  [ShuffledC1s |-> out.Xbar, ShuffledC2s |-> out.Ybar,
         Proof |-> HashProve("Votegral-SequencesShuffle-v1", "Shuffle",
                             ShuffleStatement(v, eaPublicKey),
                             [pi |-> pi, beta |-> Beta2(e, beta, pi)]),
         ChallengeE |-> e]

\* verifySequenceShuffle: consolidates with the challenge stored in the result.
verifySequenceShuffle(eaPublicKey, originalX, originalY, result) ==
    LET v == GetSequenceVerifiable(originalX, originalY,
                                   result.ShuffledC1s, result.ShuffledC2s, result.ChallengeE)
    IN  HashVerify("Votegral-SequencesShuffle-v1", "Shuffle",
                   ShuffleStatement(v, eaPublicKey), result.Proof)

\* GrothVerifySequencesShuffle: derives e, consolidates the statement, returns nil.
GrothVerifySequencesShuffle(h, X, Y, Xbar, Ybar, proofBytes) ==
    LET e == deriveNonInteractiveChallenge(h, X, Y, Xbar, Ybar)
        v == GetSequenceVerifiable(X, Y, Xbar, Ybar, e)
    IN  v = v

\* assertXY: X and Y are non-empty, of the same size, and every sequence of both has
\* the length of X[0]. The checks are made in the order of the code.
assertXY(X, Y) ==
    IF Len(X) = 0 \/ Len(X[1]) = 0 THEN "X is empty"
    ELSE IF Len(Y) = 0 \/ Len(Y[1]) = 0 THEN "Y is empty"
    ELSE IF Len(X) # Len(Y) THEN "X and Y have a different size"
    ELSE LET uneven == {i \in 1..Len(X) : Len(X[i]) # Len(X[1]) \/ Len(Y[i]) # Len(X[1])}
             first == CHOOSE i \in uneven : \A j \in uneven : i <= j
         IN  IF uneven = {} THEN "nil"
             ELSE IF Len(X[first]) # Len(X[1]) THEN "X[i] has unexpected size"
             ELSE "Y[i] has unexpected size"

\* SequencesShuffle of the Bayer-Groth back-end: the same shuffle, proved by the
\* external prover over the consolidated statement, then passed to its verifier.
SequencesShuffle(h, X, Y, seed, pos) ==
    LET pi == Permutation(Len(X[1]), seed, pos)
        beta == Beta(Len(X), Len(X[1]), seed, pos)
        out == ShuffleOutput(X, Y, h, pi, beta)
        e == deriveNonInteractiveChallenge(h, X, Y, out.Xbar, out.Ybar)
        v == GetSequenceVerifiable(X, Y, out.Xbar, out.Ybar, e)
        proofBytes == HashProve("BayerGroth", "Shuffle", ShuffleStatement(v, h),
                                [pi |-> pi, beta |-> Beta2(e, beta, pi)])
    IN  IF assertXY(X, Y) # "nil"
          THEN [ShuffledC1s |-> <<>>, ShuffledC2s |-> <<>>, Proof |-> Nil, ChallengeE |-> <<>>,
                err |-> TRUE]
          ELSE [ShuffledC1s |-> out.Xbar, ShuffledC2s |-> out.Ybar,
                Proof |-> proofBytes, ChallengeE |-> e,
                err |-> ~GrothVerifySequencesShuffle(h, X, Y, out.Xbar, out.Ybar, proofBytes)]

(* ------------------------------------------------------------------ *)
(* Ledger entries and their verification (package ledger)              *)
(* ------------------------------------------------------------------ *)
\* The serializer writes its fields in order: a message is the tuple of the fields.
RegistrationForKioskSig(VoterID, C1, C2) == <<VoterID, C1, C2>>

RegistrationForOfficialSig(VoterID, C1, C2, KioskSig) ==
    <<RegistrationForKioskSig(VoterID, C1, C2), KioskSig>>

\* RegistrationEntry.Verify: the kiosk signature, then the official's counter-signature.
RegistrationEntryVerify(r) ==
    IF ~SchnorrVerify(r.KioskSig,
                      RegistrationForKioskSig(r.VoterID, r.EncVoterPk.C1, r.EncVoterPk.C2))
      THEN "failed to verify Kiosk Signature"
    ELSE IF ~SchnorrVerify(r.OfficialSig,
                           RegistrationForOfficialSig(r.VoterID, r.EncVoterPk.C1,
                                                      r.EncVoterPk.C2, r.KioskSig.Sig))
      THEN "failed to verify Official Signature"
    ELSE "nil"

\* VotingEntry.SignPayload.
SignPayload(v) ==
    <<v.CredPk, v.EncCredPk.C1, v.EncCredPk.C2, v.EncCredPkProof.Proof,
      v.EncVote.C1, v.EncVote.C2, v.EncVoteProof.Proof>>

\* VotingEntry.Sign: the signature bytes over the payload, made with sk.
VotingEntrySign(v, sk) ==
    [v EXCEPT !.VoteSig = NewSchnorrSignature(sk, v.CredPk, SignPayload(v)).Sig]

\* A ballot check that stops after the list membership.
VotingEntryVerifyListOnly(v, authorizedCredList) ==
    IF PointString(v.CredPk) \notin authorizedCredList
      THEN "credential not found in public list of credentials"
    ELSE "nil"

\* VotingEntry.Verify: list membership, signature, then the two proof objects.
VotingEntryVerify(v, authorizedCredList) ==
    IF PointString(v.CredPk) \notin authorizedCredList
      THEN "credential not found in public list of credentials"
    ELSE IF ~SchnorrVerify([Pk |-> v.CredPk, Sig |-> v.VoteSig], SignPayload(v))
      THEN "failed to verify signature"
    ELSE IF ~ElGamalProofVerify(v.EncCredPkProof)
      THEN "failed to verify proof of encrypted credential"
    ELSE IF ~ElGamalProofVerify(v.EncVoteProof)
      THEN "failed to verify proof of encrypted vote"
    ELSE "nil"

\* The first error of a list of results, "nil" when there is none.
RECURSIVE FirstError(_, _)
FirstError(results, i) ==
    IF i > Len(results) THEN "nil"
    ELSE IF results[i] # "nil" THEN results[i] ELSE FirstError(results, i + 1)

\* A ledger check that looks at the registration records only.
verifyLedgerContentsRegOnly(RegRecords, Creds, Votes) ==
    FirstError([i \in 1..Len(RegRecords) |-> RegistrationEntryVerify(RegRecords[i])], 1)

\* verifyLedgerContents: the registration records, then the authorized list built
\* from the credential records, then every voting record against that list.
verifyLedgerContents(RegRecords, Creds, Votes) ==
    LET authorizedCredList == {PointString(Creds[i].CredPk) : i \in 1..Len(Creds)}
        regErr == FirstError([i \in 1..Len(RegRecords) |->
                                 RegistrationEntryVerify(RegRecords[i])], 1)
    IN  IF regErr # "nil" THEN regErr
        ELSE FirstError([i \in 1..Len(Votes) |->
                            VotingEntryVerify(Votes[i], authorizedCredList)], 1)

(* ------------------------------------------------------------------ *)
(* Credential material and ballots (actors.Kiosk, protocol.Flow)       *)
(* ------------------------------------------------------------------ *)
\* Prover.Commit, Prover.Respond and SimulatedProver.CommitAndRespond.
Commit(y, eaPK) == [Y1 |-> Mul(y, G), Y2 |-> Mul(y, eaPK)]

\* A response that adds e*x to the nonce.
RespondAdding(y, challenge, x) == (y + challenge * x) % Q

Respond(y, challenge, x) == (y + Q * Q - challenge * x) % Q

CommitAndRespond(r, challenge, c_pc, X, eaPK) ==
    [commitment |-> [Y1 |-> Add(Mul(r, G), Mul(challenge, c_pc.C1)),
                     Y2 |-> Add(Mul(r, eaPK), Mul(challenge, X))],
     response |-> r]

\* VerifyProof of the interactive proof printed on the materials.
VerifyProof(commitment, challenge, response, c_pc, X, eaPK) ==
    /\ commitment.Y1 = Add(Mul(response, G), Mul(challenge, c_pc.C1))
    /\ commitment.Y2 = Add(Mul(response, eaPK), Mul(challenge, X))

\* A kiosk that encrypts every credential afresh, the test ones too, in place of
\* reusing the ciphertext of the real check-out ticket.
GenerateCredentialMaterialOwnCiphertext(VoterID, eaPK, kioskSk, envelope, seed, pos, used, isTest, realCheckOutTicketForTest) ==
    LET sk == FreshKey(seed, pos, used)
        pk == Mul(sk, G)
        enc == ElGamalEncryptPoint(eaPK, pk, Pick(seed, pos + 1))
        ciphertext == enc.ct
        y == IF isTest THEN Pick(seed, pos + 1) ELSE Pick(seed, pos + 2)
        sim == CommitAndRespond(y, envelope.Challenge, ciphertext,
                                Sub(ciphertext.C2, pk), eaPK)
        zkpCommit == IF isTest THEN sim.commitment ELSE Commit(y, eaPK)
        zkpResponse == IF isTest THEN sim.response ELSE Respond(y, envelope.Challenge, enc.x)
        kioskPk == Mul(kioskSk, G)
    IN  [Credential |-> [private |-> sk, public |-> pk],
         isTest |-> isTest,
         Commit |-> [VoterID |-> VoterID, Ciphertext |-> ciphertext, Commitment |-> zkpCommit,
                     Sig |-> SchnorrSign(kioskSk, <<VoterID, ciphertext.C1, ciphertext.C2,
                                                    zkpCommit.Y1, zkpCommit.Y2>>)],
         Envelope |-> envelope,
         CheckOut |-> [VoterID |-> VoterID, EncVoterPk |-> ciphertext, KioskPK |-> kioskPk,
                       KioskSigma |-> SchnorrSign(kioskSk,
                            RegistrationForKioskSig(VoterID, ciphertext.C1, ciphertext.C2))],
         Response |-> [CredentialSK |-> sk, ZKPResponse |-> zkpResponse, KioskPK |-> kioskPk,
                       Sig |-> SchnorrSign(kioskSk, <<sk, zkpResponse>>)]]

\* Kiosk.GenerateCredentialMaterial.  A real credential is encrypted afresh and proved
\* soundly; a test credential reuses the ciphertext of the real check-out ticket and
\* carries a simulated proof.  Reads: the key, then x and y (real) or y (test).
GenerateCredentialMaterial(VoterID, eaPK, kioskSk, envelope, seed, pos, used, isTest, realCheckOutTicketForTest) ==
    LET sk == FreshKey(seed, pos, used)
        pk == Mul(sk, G)
        enc == ElGamalEncryptPoint(eaPK, pk, Pick(seed, pos + 1))
        ciphertext == IF isTest THEN realCheckOutTicketForTest.EncVoterPk ELSE enc.ct
        y == IF isTest THEN Pick(seed, pos + 1) ELSE Pick(seed, pos + 2)
        sim == CommitAndRespond(y, envelope.Challenge, ciphertext,
                                Sub(ciphertext.C2, pk), eaPK)
        zkpCommit == IF isTest THEN sim.commitment ELSE Commit(y, eaPK)
        zkpResponse == IF isTest THEN sim.response ELSE Respond(y, envelope.Challenge, enc.x)
        kioskPk == Mul(kioskSk, G)
    IN  [Credential |-> [private |-> sk, public |-> pk],
         isTest |-> isTest,
         Commit |-> [VoterID |-> VoterID, Ciphertext |-> ciphertext, Commitment |-> zkpCommit,
                     Sig |-> SchnorrSign(kioskSk, <<VoterID, ciphertext.C1, ciphertext.C2,
                                                    zkpCommit.Y1, zkpCommit.Y2>>)],
         Envelope |-> envelope,
         CheckOut |-> [VoterID |-> VoterID, EncVoterPk |-> ciphertext, KioskPK |-> kioskPk,
                       KioskSigma |-> SchnorrSign(kioskSk,
                            RegistrationForKioskSig(VoterID, ciphertext.C1, ciphertext.C2))],
         Response |-> [CredentialSK |-> sk, ZKPResponse |-> zkpResponse, KioskPK |-> kioskPk,
                       Sig |-> SchnorrSign(kioskSk, <<sk, zkpResponse>>)]]

MaterialReads(isTest) == IF isTest THEN 2 ELSE 3

\* CreateVoteWithProof: an encryption of the identity (0) or of G (1) with the
\* disjunctive proof that it is one of the two.
\* A vote creation without the check of the vote value.
CreateVoteWithProofUnchecked(eaPK, vote, x) ==
    LET enc == ElGamalEncryptPoint(eaPK, IF vote = 1 THEN G ELSE Null, x)
    IN  [encVote |-> enc.ct,
         Proof |-> NewElGamalProof("Vote",
                      [C1 |-> enc.ct.C1, C2 |-> enc.ct.C2, C2Prime |-> Sub(enc.ct.C2, G),
                       G |-> G, eaPk |-> eaPK],
                      [x |-> x, choice |-> IF vote = 1 THEN 1 ELSE 0]),
         err |-> "nil"]

CreateVoteWithProof(eaPK, vote, x) ==
    LET enc == ElGamalEncryptPoint(eaPK, IF vote = 1 THEN G ELSE Null, x)
    IN  IF vote # 0 /\ vote # 1
          THEN [encVote |-> Nil, Proof |-> Nil, err |-> "vote must be 0 or 1"]
          ELSE [encVote |-> enc.ct,
                Proof |-> NewElGamalProof("Vote",
                             [C1 |-> enc.ct.C1, C2 |-> enc.ct.C2, C2Prime |-> Sub(enc.ct.C2, G),
                              G |-> G, eaPk |-> eaPK],
                             [x |-> x, choice |-> vote]),
                err |-> "nil"]

\* Flow.CastVote: a fresh encryption of the credential's public key with its proof,
\* the encrypted vote with its proof, signed with the credential's private key.
CastVote(materials, vote, eaPK, seed, pos) ==
    LET enc == ElGamalEncryptPoint(eaPK, materials.Credential.public, Pick(seed, pos))
        v == CreateVoteWithProof(eaPK, vote, Pick(seed, pos + 1))
    IN  VotingEntrySign([CredPk |-> materials.Credential.public,
                         EncCredPk |-> enc.ct,
                         EncCredPkProof |-> NewElGamalProof("EncCred",
                              [X |-> enc.X, C1 |-> enc.ct.C1, G |-> G, eaPk |-> eaPK],
                              [x |-> enc.x]),
                         EncVote |-> v.encVote,
                         EncVoteProof |-> v.Proof,
                         VoteSig |-> <<>>],
                        materials.Credential.private)

(* ------------------------------------------------------------------ *)
(* The stages of the tally (protocol.RunTally and its helpers)         *)
(* ------------------------------------------------------------------ *)
\* One tallier's shuffle of a ciphertext list with its proof.
SingleShuffle(eaPK, C1s, C2s, seed, pos) ==
    LET pi == Permutation(Len(C1s), seed, pos)
        beta == Beta(1, Len(C1s), seed, pos)
        out == ShuffleOutput(<<C1s>>, <<C2s>>, eaPK, pi, beta)
    IN  [ShuffledC1s |-> out.Xbar[1], ShuffledC2s |-> out.Ybar[1],
         Proof |-> HashProve("SingleShuffle", "Shuffle",
                      [XUp |-> C1s, YUp |-> C2s, XDown |-> out.Xbar[1], YDown |-> out.Ybar[1],
                       G |-> G, H |-> eaPK],
                      [pi |-> pi, beta |-> [i \in 1..Len(pi) |-> beta[1][pi[i]]]])]

VerifySingleShuffle(eaPK, inC1s, inC2s, result) ==
    HashVerify("SingleShuffle", "Shuffle",
               [XUp |-> inC1s, YUp |-> inC2s, XDown |-> result.ShuffledC1s,
                YDown |-> result.ShuffledC2s, G |-> G, H |-> eaPK],
               result.Proof)

\* ShuffleElGamalCiphertexts: each tallier verifies the previous tallier's shuffle of
\* the input (inC1s, inC2s) it was made from, then shuffles its output.
RECURSIVE CiphertextChain(_, _, _, _, _, _)
CiphertextChain(eaPK, inC1s, inC2s, seed, pos, chain) ==
    LET i == Len(chain)
        curC1s == IF i = 0 THEN inC1s ELSE chain[i].ShuffledC1s
        curC2s == IF i = 0 THEN inC2s ELSE chain[i].ShuffledC2s
    IN  IF i = EAMembers THEN [chain |-> chain, err |-> "nil"]
        ELSE IF i > 0 /\ ~VerifySingleShuffle(eaPK, inC1s, inC2s, chain[i])
          THEN [chain |-> <<>>, err |-> "failed to verify previous shuffle"]
        ELSE CiphertextChain(eaPK, curC1s, curC2s, seed, pos + ShuffleReads(1, Len(inC1s)),
                             Append(chain, SingleShuffle(eaPK, curC1s, curC2s, seed, pos)))

ShuffleElGamalCiphertexts(eaPK, C1s, C2s, seed, pos) ==
    CiphertextChain(eaPK, C1s, C2s, seed, pos, <<>>)

\* ShuffleElGamalSequences: the same chain over the two sequences of the ballots.
RECURSIVE SequenceChain(_, _, _, _, _, _)
SequenceChain(eaPk, inX, inY, seed, pos, chain) ==
    LET i == Len(chain)
        curX == IF i = 0 THEN inX ELSE chain[i].ShuffledC1s
        curY == IF i = 0 THEN inY ELSE chain[i].ShuffledC2s
    IN  IF i = EAMembers THEN [chain |-> chain, err |-> "nil"]
        ELSE IF i > 0 /\ ~verifySequenceShuffle(eaPk, inX, inY, chain[i])
          THEN [chain |-> <<>>, err |-> "verification of sequence shuffle FAILED"]
        ELSE SequenceChain(eaPk, curX, curY, seed,
                           pos + ShuffleReads(Len(inX), Len(inX[1])),
                           Append(chain, performSequenceShuffle(eaPk, curX, curY, seed, pos)))

ShuffleElGamalSequences(eaPk, initialX, initialY, seed, pos) ==
    SequenceChain(eaPk, initialX, initialY, seed, pos, <<>>)

\* extractRegCredentials and extractBallotSequences.
extractRegCredentials(records) == [i \in 1..Len(records) |-> records[i].EncVoterPk]

extractBallotSequences(votes) ==
    [X |-> <<[i \in 1..Len(votes) |-> votes[i].EncCredPk.C1],
             [i \in 1..Len(votes) |-> votes[i].EncVote.C1]>>,
     Y |-> <<[i \in 1..Len(votes) |-> votes[i].EncCredPk.C2],
             [i \in 1..Len(votes) |-> votes[i].EncVote.C2]>>]

\* A filter that retains every shuffled vote.
RECURSIVE FilterKeepAll(_, _, _, _)
FilterKeepAll(tagToReg, VoteCredTags, last, i) ==
    IF i > Len(VoteCredTags) THEN <<>>
    ELSE <<[C1 |-> last.ShuffledC1s[2][i], C2 |-> last.ShuffledC2s[2][i]]>>
            \o FilterKeepAll(tagToReg, VoteCredTags, last, i + 1)

\* The loop of filterForRealVotes: a vote is retained iff its tag is a registration tag.
RECURSIVE FilterFrom(_, _, _, _)
FilterFrom(tagToReg, VoteCredTags, last, i) ==
    IF i > Len(VoteCredTags) THEN <<>>
    ELSE (IF PointString(VoteCredTags[i]) \in tagToReg
            THEN <<[C1 |-> last.ShuffledC1s[2][i], C2 |-> last.ShuffledC2s[2][i]]>>
            ELSE <<>>)
         \o FilterFrom(tagToReg, VoteCredTags, last, i + 1)

\* A filter that compares the tags position by position: the vote at a position is
\* retained iff its tag is the registration tag at the same position.
filterForRealVotesByPosition(RegCredTags, VoteCredTags, last) ==
    LET kept == {i \in 1..Len(VoteCredTags) :
                    i <= Len(RegCredTags) /\ VoteCredTags[i] = RegCredTags[i]}
        nth(n) == CHOOSE i \in kept : Cardinality({j \in kept : j < i}) = n - 1
    IN  [n \in 1..Cardinality(kept) |->
            [C1 |-> last.ShuffledC1s[2][nth(n)], C2 |-> last.ShuffledC2s[2][nth(n)]]]

\* A filter that lets every registration tag retain one vote only, the first.
filterForRealVotesFirstMatch(RegCredTags, VoteCredTags, last) ==
    LET kept == {i \in 1..Len(VoteCredTags) :
                    /\ \E j \in 1..Len(RegCredTags) : VoteCredTags[i] = RegCredTags[j]
                    /\ \A j \in 1..(i - 1) : VoteCredTags[j] # VoteCredTags[i]}
    IN  [n \in 1..Cardinality(kept) |->
            LET i == CHOOSE i \in kept : Cardinality({k \in kept : k <= i}) = n
            IN  [C1 |-> last.ShuffledC1s[2][i], C2 |-> last.ShuffledC2s[2][i]]]

filterForRealVotes(RegCredTags, VoteCredTags, last) ==
    FilterFrom({PointString(RegCredTags[i]) : i \in 1..Len(RegCredTags)}, VoteCredTags, last, 1)

\* A classification that reads every plaintext other than the identity as 1.
Classify01(M) == IF M = Null THEN 0 ELSE 1

\* The classification of decryptVotes: identity 0, generator 1, anything else fails.
Classify(M) == IF M = Null THEN 0 ELSE IF M = G THEN 1 ELSE -1

\* decryptVotes: threshold decryption of each retained vote with proof verification.
RECURSIVE DecryptFrom(_, _, _)
DecryptFrom(realEncVotes, shares, i) ==
    IF i > Len(realEncVotes) THEN [votes |-> <<>>, err |-> "nil"]
    ELSE LET d == MultiKeyDecryptWithProof(realEncVotes[i], shares)
             rest == DecryptFrom(realEncVotes, shares, i + 1)
         IN  IF \E j \in 1..Len(d.proofs) : ~ElGamalProofVerify(d.proofs[j])
               THEN [votes |-> <<>>, err |-> "decryption proof failed"]
             ELSE IF Classify(d.M) = -1
               THEN [votes |-> <<>>, err |-> "decryption failed"]
             ELSE IF rest.err # "nil" THEN rest
             ELSE [votes |-> <<Classify(d.M)>> \o rest.votes, err |-> "nil"]

decryptVotes(shares, realEncVotes) == DecryptFrom(realEncVotes, shares, 1)

\* The result map of stage 7: one key per vote value that occurs.
TallyResults(RealDecVotes) ==
    [v \in {RealDecVotes[i] : i \in 1..Len(RealDecVotes)} |->
        Cardinality({i \in 1..Len(RealDecVotes) : RealDecVotes[i] = v})]

\* Reading a map at a key it does not hold gives zero.
ResultAt(Results, k) == IF k \in DOMAIN Results THEN Results[k] ELSE 0

\* The winner rule of stage 7.
Winner(Results) ==
    IF ResultAt(Results, 0) > ResultAt(Results, 1) THEN "Option A" ELSE "Option B"

(* ------------------------------------------------------------------ *)
(* State                                                               *)
(* ------------------------------------------------------------------ *)
VARIABLES dTalliers, dPlain, dC1s, dC2s, dTags, dProof, dChange, dResult, dPc, dLog,
          sBackend, sSeed, sPos, sShares, sX0, sY0, sChain, sChange, sPc,
          cfg, streamPos, usedKeys, ea, kiosk, official, printer, ledger, voter, cast, forgery, pc, tally,
          history, lastOp, fault,
          cItems, cCores, cOp, cJobs, cClosed, cErrs, cResults, cWorkers, cCalls, cRet, cPc,
          tShares, tPlain, tCt, tOut, tPc, tCall, tRet

\* dLog: the bundles in the order in which they were produced and verified.
ddtVars == <<dTalliers, dPlain, dC1s, dC2s, dTags, dProof, dChange, dResult, dPc, dLog>>

shVars == <<sBackend, sSeed, sPos, sShares, sX0, sY0, sChain, sChange, sPc>>

\* What the caller of the ledger and of RunTally keeps: the finished runs, the last
\* ledger operation with its result, and the operation of a stage that failed.
auxVars == <<history, lastOp, fault>>

elVars == <<cfg, streamPos, usedKeys, ea, kiosk, official, printer, ledger, voter, cast, forgery,
            pc, tally, auxVars>>

mapVars == <<cItems, cCores, cOp, cJobs, cClosed, cErrs, cResults, cWorkers, cCalls, cRet, cPc>>

decVars == <<tShares, tPlain, tCt, tOut, tPc, tCall, tRet>>

vars == <<ddtVars, shVars, elVars, mapVars, decVars>>

(* ------------------------------------------------------------------ *)
(* The DDT protocol run on a batch and its verification                *)
(* ------------------------------------------------------------------ *)
NoProof == [Round1Bundles |-> <<>>, Round2Bundles |-> <<>>]

\* NewDKG: one share per trustee, read from the stream; the shares' public keys add up.
NewDKG(seed, numTrustees) ==
    [i \in 1..numTrustees |-> [Sk |-> Pick(seed, i - 1), Pk |-> Mul(Pick(seed, i - 1), G)]]

RECURSIVE SumPk(_, _)
SumPk(shares, i) == IF i > Len(shares) THEN Null ELSE Add(shares[i].Pk, SumPk(shares, i + 1))

CollectivePK(shares) == SumPk(shares, 1)

\* The talliers of a run: tallier i holds share i and a fresh secret read after the shares.
NewTalliers(seed, shares, pos) ==
    [i \in 1..Len(shares) |-> NewTallier(i, shares[i].Sk, Pick(seed, pos + i - 1))]

NoTally ==
    [stage |-> 0, err |-> "nil", talliers |-> <<>>,
     input |-> [RegRecords |-> <<>>, Votes |-> <<>>, Creds |-> <<>>],
     RegRecordsShuffled |-> <<>>, RegCredTags |-> <<>>, RegCredTagsProof |-> NoProof,
     VoteRecordsShuffled |-> <<>>, VoteCredTags |-> <<>>, VoteCredTagsProof |-> NoProof,
     RealEncVotes |-> <<>>, RealDecVotes |-> <<>>, Results |-> <<>>, Winner |-> ""]

NewLedger == [registration |-> <<>>, envelopes |-> <<>>, credentials |-> <<>>, votes |-> <<>>]

\* No ledger operation has been called yet.
NoOp ==
    [op |-> "none", ok |-> TRUE, before |-> NewLedger,
     input |-> [RegRecords |-> <<>>, Votes |-> <<>>, Creds |-> <<>>]]

\* No call of Map or ForEach is under way.
MapIdle ==
    /\ cItems = <<>> /\ cCores = 0 /\ cOp = "none" /\ cJobs = <<>> /\ cClosed = FALSE
    /\ cErrs = <<>> /\ cResults = <<>> /\ cWorkers = <<>> /\ cCalls = <<>>
    /\ cRet = [results |-> <<>>, err |-> "nil", from |-> 0] /\ cPc = "off"

\* No threshold decryption is under way.
DecIdle ==
    /\ tShares = <<>> /\ tPlain = Null /\ tCt = [C1 |-> Null, C2 |-> Null]
    /\ tOut = [M |-> Null, proofs |-> <<>>] /\ tPc = "off"
    /\ tCall = [fn |-> "none"] /\ tRet = [fn |-> "none"]

ElectionIdle ==
    /\ cfg = [Voters |-> 0, FakeCredentialCount |-> 0, postFakes |-> TRUE, seed |-> 0]
    /\ streamPos = 0 /\ usedKeys = {} /\ ea = <<>> /\ kiosk = 0 /\ official = 0
    /\ printer = [sk |-> 0, envelopes |-> <<>>, nextEnvelope |-> 0]
    /\ ledger = NewLedger /\ voter = [ID |-> 0, materials |-> <<>>, activated |-> 0, voted |-> 0]
    /\ cast = <<>> /\ forgery = "none" /\ pc = "off" /\ tally = NoTally
    /\ history = <<>> /\ lastOp = NoOp /\ fault = "none"

ShuffleIdle ==
    /\ sBackend = "none" /\ sSeed = 0 /\ sPos = 0 /\ sShares = <<>>
    /\ sX0 = <<>> /\ sY0 = <<>> /\ sChain = <<>> /\ sChange = "none" /\ sPc = "off"

DDTIdle ==
    /\ dTalliers = <<>> /\ dPlain = <<>> /\ dC1s = <<>> /\ dC2s = <<>>
    /\ dTags = <<>> /\ dProof = NoProof /\ dChange = "none" /\ dResult = "none"
    /\ dPc = "off" /\ dLog = <<>>

\* A batch of up to MaxBatch ciphertexts under the collective key of the talliers.
DDTInit ==
    /\ \E seed \in 0..MaxSeed, n \in 0..MaxBatch :
          \E ms \in [1..n -> 0..MaxMsg], xs \in [1..n -> 1..MaxRand] :
             LET shares == NewDKG(seed, EAMembers)
                 ct(i) == ElGamalEncryptPoint(CollectivePK(shares), ms[i], xs[i]).ct
             IN  /\ dTalliers = NewTalliers(seed, shares, EAMembers)
                 /\ dPlain = ms
                 /\ dC1s = [i \in 1..n |-> ct(i).C1]
                 /\ dC2s = [i \in 1..n |-> ct(i).C2]
    /\ dTags = <<>> /\ dProof = NoProof /\ dChange = "none" /\ dResult = "none"
    /\ dPc = "start" /\ dLog = <<>>
    /\ ShuffleIdle
    /\ ElectionIdle
    /\ MapIdle /\ DecIdle

\* GenerateDeterministicTags on the batch.
DDTGenerate ==
    /\ dPc = "start"
    /\ LET r == GenerateDeterministicTags(dC1s, dC2s, dTalliers)
       IN  dTags' = r.tags /\ dProof' = r.proof
    /\ dPc' = "generated"
    /\ UNCHANGED <<dLog, dTalliers, dPlain, dC1s, dC2s, dChange, dResult, shVars, elVars, mapVars, decVars>>

\* All proof byte strings of a transcript, and a string that is no proof at all.
ProofBytesOf(proof) ==
    {proof.Round1Bundles[i].ProofOfKnowledge.Proof : i \in 1..Len(proof.Round1Bundles)}
    \cup UNION {{proof.Round2Bundles[i].RemaskingProofs[j].Proof :
                    j \in 1..Len(proof.Round2Bundles[i].RemaskingProofs)} :
                i \in 1..Len(proof.Round2Bundles)}
    \cup {BadProof}

\* One Round 1 public commitment of the transcript is replaced by another point.
ChangeCommitment ==
    /\ dPc = "generated"
    /\ \E i \in 1..Len(dProof.Round1Bundles), p \in Points :
          /\ p # dProof.Round1Bundles[i].PublicCommitment
          /\ dProof' = [dProof EXCEPT !.Round1Bundles[i].PublicCommitment = p]
    /\ dChange' = "commitment" /\ dPc' = "changed"
    /\ UNCHANGED <<dLog, dTalliers, dPlain, dC1s, dC2s, dTags, dResult, shVars, elVars, mapVars, decVars>>

\* One updated C1 or C2 point of a Round 2 bundle is replaced by another point.
ChangeUpdatedPoint ==
    /\ dPc = "generated"
    /\ \E i \in 1..Len(dProof.Round2Bundles), p \in Points :
          \E j \in 1..Len(dProof.Round2Bundles[i].UpdatedC1s) :
             \/ /\ p # dProof.Round2Bundles[i].UpdatedC1s[j]
                /\ dProof' = [dProof EXCEPT !.Round2Bundles[i].UpdatedC1s[j] = p]
             \/ /\ p # dProof.Round2Bundles[i].UpdatedC2s[j]
                /\ dProof' = [dProof EXCEPT !.Round2Bundles[i].UpdatedC2s[j] = p]
    /\ dChange' = "point" /\ dPc' = "changed"
    /\ UNCHANGED <<dLog, dTalliers, dPlain, dC1s, dC2s, dTags, dResult, shVars, elVars, mapVars, decVars>>

\* The bytes of one proof are replaced by other bytes.
ChangeProof ==
    /\ dPc = "generated"
    /\ \E b \in ProofBytesOf(dProof) :
          \/ \E i \in 1..Len(dProof.Round1Bundles) :
                /\ b # dProof.Round1Bundles[i].ProofOfKnowledge.Proof
                /\ dProof' = [dProof EXCEPT !.Round1Bundles[i].ProofOfKnowledge.Proof = b]
          \/ \E i \in 1..Len(dProof.Round2Bundles) :
                \E j \in 1..Len(dProof.Round2Bundles[i].RemaskingProofs) :
                   /\ b # dProof.Round2Bundles[i].RemaskingProofs[j].Proof
                   /\ dProof' = [dProof EXCEPT !.Round2Bundles[i].RemaskingProofs[j].Proof = b]
    /\ dChange' = "proof" /\ dPc' = "changed"
    /\ UNCHANGED <<dLog, dTalliers, dPlain, dC1s, dC2s, dTags, dResult, shVars, elVars, mapVars, decVars>>

\* The bundles VerifyDeterministicTagProof checks, in the order of its two loops: the
\* Round 1 bundles up to the first that fails, then, if none failed, the Round 2
\* bundles up to the first that fails.
RECURSIVE VerifyLog1(_, _)
VerifyLog1(fullProof, i) ==
    IF i > Len(fullProof.Round1Bundles) THEN <<>>
    ELSE <<<<"verify1", i>>>> \o (IF VerifyRound1Bundle(fullProof.Round1Bundles[i])
                                   THEN VerifyLog1(fullProof, i + 1) ELSE <<>>)

RECURSIVE VerifyLog2(_, _, _, _, _)
VerifyLog2(C1s, C2s, talliers, fullProof, i) ==
    IF i > Len(fullProof.Round2Bundles) \/ i > Len(fullProof.Round1Bundles) THEN <<>>
    ELSE IF fullProof.Round1Bundles[i].TallierID # fullProof.Round2Bundles[i].TallierID THEN <<>>
    ELSE IF i > Len(talliers) THEN <<>>
    ELSE <<<<"verify2", i>>>> \o
         (IF VerifyRound2Bundle(C1s, C2s, fullProof.Round1Bundles[i].PublicCommitment,
                                talliers[i].PublicKey, fullProof.Round2Bundles[i])
            THEN VerifyLog2(fullProof.Round2Bundles[i].UpdatedC1s,
                            fullProof.Round2Bundles[i].UpdatedC2s, talliers, fullProof, i + 1)
            ELSE <<>>)

VerifyLog(initialC1s, initialC2s, talliers, fullProof) ==
    VerifyLog1(fullProof, 1) \o
    (IF \A i \in 1..Len(fullProof.Round1Bundles) : VerifyRound1Bundle(fullProof.Round1Bundles[i])
       THEN VerifyLog2(initialC1s, R1FinalC2s(initialC2s, fullProof.Round1Bundles, 1),
                       talliers, fullProof, 1)
       ELSE <<>>)

\* VerifyDeterministicTagProof against the initial ciphertexts of the batch.
DDTVerify ==
    /\ dPc \in {"generated", "changed"}
    /\ LET err == VerifyDeterministicTagProofErr(dC1s, dC2s, dTalliers, dProof)
       IN  dResult' = IF err = "nil" THEN "ok"
                      ELSE IF err = "panic: index out of range" THEN "panic" ELSE "error"
    /\ dPc' = "verified"
    /\ dLog' = dLog \o VerifyLog(dC1s, dC2s, dTalliers, dProof)
    /\ UNCHANGED <<dTalliers, dPlain, dC1s, dC2s, dTags, dProof, dChange, shVars, elVars, mapVars, decVars>>

NextDDT ==
    \/ DDTGenerate
    \/ ChangeCommitment
    \/ ChangeUpdatedPoint
    \/ ChangeProof
    \/ DDTVerify

SpecDDT == DDTInit /\ [][NextDDT]_vars

\* C4: in a batch tagged by one list of talliers, two ciphertexts have equal final
\* tags exactly when they encrypt the same credential, whatever their randomness.
DDTDeterminism ==
    dPc # "start" =>
       /\ Len(dTags) = Len(dPlain)
       /\ \A i, j \in 1..Len(dTags) : (dTags[i] = dTags[j]) <=> (dPlain[i] = dPlain[j])

\* Two distinct ciphertexts of one credential were tagged.
DDTDeterminismWitness ==
    /\ dPc = "generated"
    /\ \E i, j \in 1..Len(dTags) :
          dPlain[i] = dPlain[j] /\ dC1s[i] # dC1s[j] /\ dC2s[i] # dC2s[j]

\* C5: the verifier accepts the transcript GenerateDeterministicTags produced, and
\* rejects it once a commitment, an updated point or a proof has been changed.
DDTVerifierSound ==
    dPc = "verified" => (dResult = "ok" <=> dChange = "none")

\* A transcript with one changed updated point has been rejected.
DDTVerifierSoundWitness ==
    dPc = "verified" /\ dChange = "point" /\ dResult = "error"

(* ------------------------------------------------------------------ *)
(* The sequence shuffle chain of the election authority members        *)
(* ------------------------------------------------------------------ *)
Backends == {"Neff", "BayerGroth"}

RECURSIVE SumSk(_, _)
SumSk(shares, i) == IF i > Len(shares) THEN 0 ELSE (shares[i].Sk + SumSk(shares, i + 1)) % Q

\* The sequences a member receives: the initial ones, or the previous member's output.
InputX(i) == IF i = 1 THEN sX0 ELSE sChain[i - 1].ShuffledC1s
InputY(i) == IF i = 1 THEN sY0 ELSE sChain[i - 1].ShuffledC2s

\* Two sequences (credentials, votes) of up to MaxBatch ciphertexts under the EA key.
ShuffleInit ==
    /\ \E seed \in 0..MaxSeed, k \in 1..MaxBatch :
          \E creds \in [1..k -> 0..MaxMsg], votes \in [1..k -> {Null, G}] :
             LET shares == NewDKG(seed, EAMembers)
                 pk == CollectivePK(shares)
                 c(i) == ElGamalEncryptPoint(pk, creds[i], Pick(seed, EAMembers + 2 * (i - 1))).ct
                 v(i) == ElGamalEncryptPoint(pk, votes[i], Pick(seed, EAMembers + 2 * i - 1)).ct
             IN  /\ sSeed = seed
                 /\ sShares = shares
                 /\ sPos = EAMembers + 2 * k
                 /\ sX0 = <<[i \in 1..k |-> c(i).C1], [i \in 1..k |-> v(i).C1]>>
                 /\ sY0 = <<[i \in 1..k |-> c(i).C2], [i \in 1..k |-> v(i).C2]>>
    /\ sBackend \in Backends
    /\ sChain = <<>> /\ sChange = "none" /\ sPc = "run"
    /\ DDTIdle
    /\ ElectionIdle
    /\ MapIdle /\ DecIdle

\* One iteration of NeffShuffle.ShuffleSequences: the member verifies the previous
\* member's published result, then shuffles it; after the last member only verifies.
NeffShuffleSequencesStep ==
    /\ sBackend = "Neff" /\ sPc = "run"
    /\ LET i == Len(sChain)
           pk == CollectivePK(sShares)
       IN  IF i > 0 /\ ~verifySequenceShuffle(pk, InputX(i), InputY(i), sChain[i])
             THEN sPc' = "error" /\ UNCHANGED <<sChain, sPos>>
             ELSE IF i = EAMembers
                    THEN sPc' = "done" /\ UNCHANGED <<sChain, sPos>>
                    ELSE /\ sChain' = Append(sChain,
                                performSequenceShuffle(pk, InputX(i + 1), InputY(i + 1), sSeed, sPos))
                         /\ sPos' = sPos + ShuffleReads(Len(sX0), Len(sX0[1]))
                         /\ sPc' = "run"
    /\ UNCHANGED <<sBackend, sSeed, sShares, sX0, sY0, sChange, ddtVars, elVars, mapVars, decVars>>

\* One iteration of GrothShuffle.ShuffleSequences: the member shuffles what the
\* previous member published; the loop ends by returning the results.
GrothShuffleSequencesStep ==
    /\ sBackend = "BayerGroth" /\ sPc = "run"
    /\ LET i == Len(sChain)
           r == SequencesShuffle(CollectivePK(sShares), InputX(i + 1), InputY(i + 1), sSeed, sPos)
       IN  IF i = EAMembers
             THEN sPc' = "done" /\ UNCHANGED <<sChain, sPos>>
             ELSE IF r.err
                    THEN sPc' = "error" /\ UNCHANGED <<sChain, sPos>>
                    ELSE /\ sChain' = Append(sChain,
                                [ShuffledC1s |-> r.ShuffledC1s, ShuffledC2s |-> r.ShuffledC2s,
                                 Proof |-> r.Proof, ChallengeE |-> r.ChallengeE])
                         /\ sPos' = sPos + ShuffleReads(Len(sX0), Len(sX0[1]))
                         /\ sPc' = "run"
    /\ UNCHANGED <<sBackend, sSeed, sShares, sX0, sY0, sChange, ddtVars, elVars, mapVars, decVars>>

\* The last member to publish swaps two output positions and keeps its proof.
PermuteOutput ==
    /\ sPc = "run" /\ sChange = "none" /\ Len(sChain) > 0
    /\ \E a, b \in 1..Len(sX0[1]) :
          LET n == Len(sChain)
              r == sChain[n]
              X == [j \in 1..Len(sX0) |-> Swap(r.ShuffledC1s[j], a, b)]
              Y == [j \in 1..Len(sX0) |-> Swap(r.ShuffledC2s[j], a, b)]
          IN  /\ a < b
              /\ <<X, Y>> # <<r.ShuffledC1s, r.ShuffledC2s>>
              /\ sChain' = [sChain EXCEPT ![n].ShuffledC1s = X, ![n].ShuffledC2s = Y]
    /\ sChange' = "permuted"
    /\ UNCHANGED <<sBackend, sSeed, sPos, sShares, sX0, sY0, sPc, ddtVars, elVars, mapVars, decVars>>

\* The last member to publish replaces one output point and keeps its proof.
ReplaceOutput ==
    /\ sPc = "run" /\ sChange = "none" /\ Len(sChain) > 0
    /\ \E j \in 1..Len(sX0), i \in 1..Len(sX0[1]), p \in Points :
          LET n == Len(sChain)
          IN  \/ /\ p # sChain[n].ShuffledC1s[j][i]
                 /\ sChain' = [sChain EXCEPT ![n].ShuffledC1s[j][i] = p]
              \/ /\ p # sChain[n].ShuffledC2s[j][i]
                 /\ sChain' = [sChain EXCEPT ![n].ShuffledC2s[j][i] = p]
    /\ sChange' = "replaced"
    /\ UNCHANGED <<sBackend, sSeed, sPos, sShares, sX0, sY0, sPc, ddtVars, elVars, mapVars, decVars>>

NextShuffle ==
    \/ NeffShuffleSequencesStep
    \/ GrothShuffleSequencesStep
    \/ PermuteOutput
    \/ ReplaceOutput

SpecShuffle == ShuffleInit /\ [][NextShuffle]_vars

\* The (credential, vote) plaintext pairs of two sequences, position by position.
PlainPairs(X, Y) ==
    [i \in 1..Len(X[1]) |->
        <<Decrypt([C1 |-> X[1][i], C2 |-> Y[1][i]], SumSk(sShares, 1)).M,
          Decrypt([C1 |-> X[2][i], C2 |-> Y[2][i]], SumSk(sShares, 1)).M>>]

Occurrences(f, v) == Cardinality({i \in 1..Len(f) : f[i] = v})

SameBag(f, g) ==
    /\ Len(f) = Len(g)
    /\ \A i \in 1..Len(f) : Occurrences(f, f[i]) = Occurrences(g, f[i])

\* C6: a chain completes only if no member's output was permuted or replaced
\* after its proof was made: the verifier rejects such a result.
ShuffleSoundness ==
    sPc = "done" => sChange = "none"

\* C7: every member's output of an unaltered chain holds the same multiset of
\* (credential, vote) plaintext pairs as the initial sequences, and so the same
\* multiset of plaintexts in each sequence.
ShufflePreservation ==
    sChange = "none" =>
       \A n \in 1..Len(sChain) :
          LET before == PlainPairs(sX0, sY0)
              after == PlainPairs(sChain[n].ShuffledC1s, sChain[n].ShuffledC2s)
          IN  /\ SameBag(before, after)
              /\ SameBag([i \in 1..Len(before) |-> before[i][1]],
                         [i \in 1..Len(after) |-> after[i][1]])
              /\ SameBag([i \in 1..Len(before) |-> before[i][2]],
                         [i \in 1..Len(after) |-> after[i][2]])

\* A whole chain has run and moved distinct ballots to other positions.
ShufflePreservationWitness ==
    /\ sPc = "done" /\ sChange = "none" /\ Len(sChain) = EAMembers
    /\ PlainPairs(sX0, sY0) # PlainPairs(sChain[EAMembers].ShuffledC1s, sChain[EAMembers].ShuffledC2s)

(* ------------------------------------------------------------------ *)
(* The election: setup, registration and voting (simulation driver)    *)
(* ------------------------------------------------------------------ *)
eaPublicKey == CollectivePK(ea)

\* The challenges of n envelopes, read from the stream; two envelopes never share one.
RECURSIVE Challenges(_, _, _, _)
Challenges(seed, p, n, used) ==
    IF n = 0 THEN <<>>
    ELSE LET c == FreshKey(seed, p, used)
         IN  <<c>> \o Challenges(seed, p + 1, n - 1, used \cup {c})

\* The actors of a simulation: the EA's key shares, the official, the kiosk and the
\* envelope printer, for a configuration of voters, fake credentials and a seed.
ElectionInit ==
    /\ \E seed \in 0..MaxSeed, V \in 1..NumVoters, f \in 0..MaxFake, post \in BOOLEAN :
          /\ (f = 0 => post)
          /\ cfg = [Voters |-> V, FakeCredentialCount |-> f, postFakes |-> post, seed |-> seed]
    /\ ea = NewDKG(cfg.seed, EAMembers)
    /\ official = Pick(cfg.seed, EAMembers)
    /\ kiosk = Pick(cfg.seed, EAMembers + 1)
    /\ printer = [sk |-> Pick(cfg.seed, EAMembers + 2), envelopes |-> <<>>, nextEnvelope |-> 0]
    /\ streamPos = EAMembers + 3
    /\ usedKeys = {}
    /\ ledger = NewLedger
    /\ voter = [ID |-> 1, materials |-> <<>>, activated |-> 0, voted |-> 0]
    /\ cast = <<>> /\ forgery = "none" /\ pc = "setup" /\ tally = NoTally
    /\ history = <<>> /\ lastOp = NoOp /\ fault = "none"
    /\ DDTIdle /\ ShuffleIdle /\ MapIdle /\ DecIdle

\* EnvelopePrinter.GenerateEnvelopes: one signed envelope per credential, each put
\* on the envelope ledger as unused.
GenerateEnvelopes ==
    /\ pc = "setup"
    /\ LET n == cfg.Voters * (1 + cfg.FakeCredentialCount)
           cs == Challenges(cfg.seed, streamPos, n, {})
           sig(c) == NewSchnorrSignature(printer.sk, Mul(printer.sk, G), <<c>>)
       IN  /\ printer' = [printer EXCEPT !.envelopes =
                 [i \in 1..n |-> [PrinterPK |-> Mul(printer.sk, G), Challenge |-> cs[i],
                                  Sig |-> sig(cs[i]).Sig]]]
           /\ ledger' = [ledger EXCEPT !.envelopes =
                 [c \in {cs[i] : i \in 1..n} |->
                     [ChallengeBytes |-> c, PrinterSig |-> sig(c), IsUsed |-> FALSE]]]
           /\ streamPos' = streamPos + n
    /\ pc' = "real"
    /\ UNCHANGED <<cfg, usedKeys, ea, kiosk, official, voter, cast, forgery, auxVars, tally, ddtVars, shVars, mapVars, decVars>>

\* Flow.CreateRealCredential with EnvelopePrinter.NextEnvelope.
CreateRealCredential ==
    /\ pc = "real"
    /\ IF printer.nextEnvelope >= Len(printer.envelopes)
         THEN pc' = "failed" /\ UNCHANGED <<voter, usedKeys, streamPos, printer>>
         ELSE LET m == GenerateCredentialMaterial(voter.ID, eaPublicKey, kiosk,
                          printer.envelopes[printer.nextEnvelope + 1],
                          cfg.seed, streamPos, usedKeys, FALSE, <<>>)
              IN  /\ voter' = [voter EXCEPT !.materials = <<m>>]
                  /\ usedKeys' = usedKeys \cup {m.Credential.private}
                  /\ streamPos' = streamPos + MaterialReads(FALSE)
                  /\ printer' = [printer EXCEPT !.nextEnvelope = @ + 1]
                  /\ pc' = IF cfg.FakeCredentialCount > 0 THEN "test" ELSE "checkout"
    /\ UNCHANGED <<cfg, ea, kiosk, official, ledger, cast, forgery, auxVars, tally, ddtVars, shVars, mapVars, decVars>>

\* Flow.CreateTestCredential: needs the real check-out ticket, whose ciphertext it reuses.
CreateTestCredential ==
    /\ pc = "test"
    /\ IF Len(voter.materials) = 0 \/ printer.nextEnvelope >= Len(printer.envelopes)
         THEN pc' = "failed" /\ UNCHANGED <<voter, usedKeys, streamPos, printer>>
         ELSE LET m == GenerateCredentialMaterial(voter.ID, eaPublicKey, kiosk,
                          printer.envelopes[printer.nextEnvelope + 1],
                          cfg.seed, streamPos, usedKeys, TRUE, voter.materials[1].CheckOut)
              IN  /\ voter' = [voter EXCEPT !.materials = Append(@, m)]
                  /\ usedKeys' = usedKeys \cup {m.Credential.private}
                  /\ streamPos' = streamPos + MaterialReads(TRUE)
                  /\ printer' = [printer EXCEPT !.nextEnvelope = @ + 1]
                  /\ pc' = IF Len(voter.materials) = cfg.FakeCredentialCount
                             THEN "checkout" ELSE "test"
    /\ UNCHANGED <<cfg, ea, kiosk, official, ledger, cast, forgery, auxVars, tally, ddtVars, shVars, mapVars, decVars>>

\* Flow.CheckOut with one of the voter's materials: the official checks the kiosk's
\* signature, counter-signs and puts the entry on the registration ledger.
CheckOut ==
    /\ pc = "checkout"
    /\ \E i \in 1..Len(voter.materials) :
          LET ticket == voter.materials[i].CheckOut
              kioskSig == [Pk |-> ticket.KioskPK, Sig |-> ticket.KioskSigma]
              msg == RegistrationForOfficialSig(ticket.VoterID, ticket.EncVoterPk.C1,
                                                ticket.EncVoterPk.C2, ticket.KioskSigma)
              entry == [VoterID |-> voter.ID, EncVoterPk |-> ticket.EncVoterPk,
                        KioskSig |-> kioskSig,
                        OfficialSig |-> NewSchnorrSignature(official, Mul(official, G), msg)]
          IN  IF \/ ticket.KioskPK # Mul(kiosk, G)
                 \/ ~SchnorrVerify(kioskSig,
                        RegistrationForKioskSig(ticket.VoterID, ticket.EncVoterPk.C1,
                                                ticket.EncVoterPk.C2))
                THEN pc' = "failed" /\ UNCHANGED ledger
                ELSE /\ ledger' = [ledger EXCEPT !.registration =
                                      (voter.ID :> entry) @@ ledger.registration]
                     /\ pc' = "activate"
    /\ UNCHANGED <<cfg, streamPos, usedKeys, ea, kiosk, official, printer, voter, cast,
                   forgery, auxVars, tally, ddtVars, shVars, mapVars, decVars>>

\* The checks of Flow.Activate on one set of materials, before the envelope is marked.
ActivateChecks(m) ==
    LET kioskPK == m.Response.KioskPK
        c_pk == Mul(m.Response.CredentialSK, G)
        X == Sub(m.Commit.Ciphertext.C2, c_pk)
    IN  /\ SchnorrVerify([Pk |-> kioskPK, Sig |-> m.Commit.Sig],
              <<m.Commit.VoterID, m.Commit.Ciphertext.C1, m.Commit.Ciphertext.C2,
                m.Commit.Commitment.Y1, m.Commit.Commitment.Y2>>)
        /\ SchnorrVerify([Pk |-> kioskPK, Sig |-> m.Response.Sig],
              <<m.Response.CredentialSK, m.Response.ZKPResponse>>)
        /\ SchnorrVerify([Pk |-> m.Envelope.PrinterPK, Sig |-> m.Envelope.Sig],
              <<m.Envelope.Challenge>>)
        /\ VerifyProof(m.Commit.Commitment, m.Envelope.Challenge, m.Response.ZKPResponse,
                       m.Commit.Ciphertext, X, eaPublicKey)
        /\ voter.ID \in DOMAIN ledger.registration
        /\ ledger.registration[voter.ID].KioskSig.Pk = kioskPK
        /\ ledger.registration[voter.ID].EncVoterPk = m.Commit.Ciphertext
        /\ ledger.registration[voter.ID].VoterID = voter.ID
        /\ ledger.registration[voter.ID].OfficialSig.Pk = Mul(official, G)

\* Flow.Activate on the voter's next set of materials, with Ledger.MarkEnvelopeUsed.
Activate ==
    /\ pc = "activate"
    /\ LET m == voter.materials[voter.activated + 1]
           c == m.Envelope.Challenge
       IN  IF /\ ActivateChecks(m)
              /\ c \in DOMAIN ledger.envelopes
              /\ ~ledger.envelopes[c].IsUsed
             THEN /\ ledger' = [ledger EXCEPT !.envelopes[c].IsUsed = TRUE]
                  /\ voter' = [voter EXCEPT !.activated = @ + 1]
                  /\ pc' = IF voter.activated + 1 = Len(voter.materials)
                             THEN "post" ELSE "activate"
             ELSE pc' = "failed" /\ UNCHANGED <<ledger, voter>>
    /\ UNCHANGED <<cfg, streamPos, usedKeys, ea, kiosk, official, printer, cast, forgery, auxVars,
                   tally, ddtVars, shVars, mapVars, decVars>>

\* The election authority posts the voter's credentials with
\* Ledger.AppendCredentialRecord: all of them, or the real one only.
PostCredentials ==
    /\ pc = "post"
    /\ ledger' = [ledger EXCEPT !.credentials = @ \o
          [i \in 1..(IF cfg.postFakes THEN Len(voter.materials) ELSE 1) |->
              [CredPk |-> voter.materials[i].Credential.public]]]
    /\ pc' = "vote"
    /\ UNCHANGED <<cfg, streamPos, usedKeys, ea, kiosk, official, printer, voter, cast,
                   forgery, auxVars, tally, ddtVars, shVars, mapVars, decVars>>

\* The voter casts one ballot per credential with Flow.CastVote and
\* Ledger.AppendVoteRecord; fake credentials vote 1.
CastBallot ==
    /\ pc = "vote"
    /\ \E vote \in {0, 1} :
          LET m == voter.materials[voter.voted + 1]
          IN  /\ (m.isTest => vote = 1)
              /\ ledger' = [ledger EXCEPT !.votes =
                               Append(@, CastVote(m, vote, eaPublicKey, cfg.seed, streamPos))]
              /\ cast' = Append(cast, [real |-> ~m.isTest, vote |-> vote,
                                      cred |-> m.Credential.public])
    /\ streamPos' = streamPos + 2
    /\ IF voter.voted + 1 < Len(voter.materials)
         THEN voter' = [voter EXCEPT !.voted = @ + 1] /\ pc' = "vote"
         ELSE IF voter.ID < cfg.Voters
                THEN /\ voter' = [ID |-> voter.ID + 1, materials |-> <<>>,
                                  activated |-> 0, voted |-> 0]
                     /\ pc' = "real"
                ELSE /\ voter' = [voter EXCEPT !.voted = @ + 1]
                     /\ pc' = "tally"
    /\ UNCHANGED <<cfg, usedKeys, ea, kiosk, official, printer, forgery, auxVars, tally, ddtVars, shVars, mapVars, decVars>>

(* ------------------------------------------------------------------ *)
(* RunTally, stage by stage                                            *)
(* ------------------------------------------------------------------ *)
\* The orders in which ranging over the registration map can yield its records.
Orders(S) == {f \in [1..Cardinality(S) -> S] : \A i, j \in 1..Cardinality(S) : f[i] = f[j] => i = j}

\* The result of the first member of a chain instead of the last.
FirstShuffled(chain) == chain[1]

\* tally.XRecordsShuffled[lastTallier], with lastTallier = EAMembers - 1 counted from 0.
LastShuffled(chain) == chain[EAMembers]

\* A tally start that takes the ballots off the ledger as it reads them.
TallyStartConsuming ==
    /\ pc = "tally"
    /\ \E order \in Orders(DOMAIN ledger.registration) :
          LET input == [RegRecords |-> [i \in 1..Len(order) |-> ledger.registration[order[i]]],
                        Votes |-> ledger.votes,
                        Creds |-> ledger.credentials]
              err == IF Len(input.RegRecords) < 2 \/ Len(input.Votes) < 2
                       THEN "not enough registration or voting records to tally"
                       ELSE verifyLedgerContents(input.RegRecords, input.Creds, input.Votes)
          IN  /\ tally' = [NoTally EXCEPT !.talliers = NewTalliers(cfg.seed, ea, streamPos),
                                          !.input = input, !.err = err]
              /\ pc' = IF err = "nil" THEN "stage1" ELSE "tallied"
    /\ ledger' = [ledger EXCEPT !.votes = <<>>]
    /\ streamPos' = streamPos + EAMembers
    /\ UNCHANGED <<cfg, usedKeys, ea, kiosk, official, printer, voter, cast,
                   forgery, auxVars, ddtVars, shVars, mapVars, decVars>>

\* The input validation of RunTally.
InputValidationRegistrationsOnly(input) ==
    IF Len(input.RegRecords) < 2
      THEN "not enough registration or voting records to tally" ELSE "nil"

InputValidation(input) ==
    IF Len(input.RegRecords) < 2 \/ Len(input.Votes) < 2
      THEN "not enough registration or voting records to tally" ELSE "nil"

\* NewTallyInput and the start of RunTally: the talliers draw their fresh secrets,
\* the input sizes are validated and stage 0 verifies the ledger contents.
StartRun ==
    /\ \E order \in Orders(DOMAIN ledger.registration) :
          LET input == [RegRecords |-> [i \in 1..Len(order) |-> ledger.registration[order[i]]],
                        Votes |-> ledger.votes,
                        Creds |-> ledger.credentials]
              err == IF InputValidation(input) # "nil"
                       THEN InputValidation(input)
                       ELSE verifyLedgerContents(input.RegRecords, input.Creds, input.Votes)
          IN  /\ tally' = [NoTally EXCEPT !.talliers = NewTalliers(cfg.seed, ea, streamPos),
                                          !.input = input, !.err = err]
              /\ pc' = IF err = "nil" THEN "stage1" ELSE "tallied"
    /\ streamPos' = streamPos + EAMembers
    /\ UNCHANGED <<cfg, usedKeys, ea, kiosk, official, printer, ledger, voter, cast,
                   forgery, auxVars, ddtVars, shVars, mapVars, decVars>>

\* The simulation runs the tally once every voter has voted.
TallyStart == pc = "tally" /\ StartRun

\* RunTally called on the ledger as it stands while a voter is still registering
\* or voting; the election ends with that run.
TallyEarly == pc \in {"activate", "post", "vote"} /\ StartRun

\* Stage 1: the registration credentials go through the shuffle chain.
TallyStage1 ==
    /\ pc = "stage1"
    /\ LET regCreds == extractRegCredentials(tally.input.RegRecords)
           r == ShuffleElGamalCiphertexts(eaPublicKey,
                    [i \in 1..Len(regCreds) |-> regCreds[i].C1],
                    [i \in 1..Len(regCreds) |-> regCreds[i].C2], cfg.seed, streamPos)
       IN  /\ tally' = [tally EXCEPT !.stage = 1, !.RegRecordsShuffled = r.chain, !.err = r.err]
           /\ pc' = IF r.err = "nil" THEN "stage2" ELSE "tallied"
           /\ streamPos' = streamPos + EAMembers * ShuffleReads(1, Len(regCreds))
    /\ UNCHANGED <<cfg, usedKeys, ea, kiosk, official, printer, ledger, voter, cast,
                   forgery, auxVars, ddtVars, shVars, mapVars, decVars>>

\* Stage 2: deterministic tags on the shuffled registration credentials, then the
\* verification of their transcript.
TallyStage2 ==
    /\ pc = "stage2"
    /\ LET last == LastShuffled(tally.RegRecordsShuffled)
           r == GenerateDeterministicTags(last.ShuffledC1s, last.ShuffledC2s, tally.talliers)
           ok == VerifyDeterministicTagProof(last.ShuffledC1s, last.ShuffledC2s,
                                             tally.talliers, r.proof)
       IN  /\ tally' = [tally EXCEPT !.stage = 2, !.RegCredTags = r.tags,
                           !.RegCredTagsProof = r.proof,
                           !.err = IF ok THEN "nil" ELSE "failed to verify deterministic tags"]
           /\ pc' = IF ok THEN "stage3" ELSE "tallied"
    /\ UNCHANGED <<cfg, streamPos, usedKeys, ea, kiosk, official, printer, ledger, voter,
                   cast, forgery, auxVars, ddtVars, shVars, mapVars, decVars>>

\* Stage 3: the (credential, vote) sequences of the ballots go through the chain.
TallyStage3 ==
    /\ pc = "stage3"
    /\ LET seqs == extractBallotSequences(tally.input.Votes)
           r == ShuffleElGamalSequences(eaPublicKey, seqs.X, seqs.Y, cfg.seed, streamPos)
       IN  /\ tally' = [tally EXCEPT !.stage = 3, !.VoteRecordsShuffled = r.chain, !.err = r.err]
           /\ pc' = IF r.err = "nil" THEN "stage4" ELSE "tallied"
           /\ streamPos' = streamPos + EAMembers * ShuffleReads(2, Len(tally.input.Votes))
    /\ UNCHANGED <<cfg, usedKeys, ea, kiosk, official, printer, ledger, voter, cast,
                   forgery, auxVars, ddtVars, shVars, mapVars, decVars>>

\* A stage 4 whose talliers are made anew, with one-time secrets read from the stream.
TallyStage4NewTalliers ==
    /\ pc = "stage4"
    /\ LET last == LastShuffled(tally.VoteRecordsShuffled)
           talliers == NewTalliers(cfg.seed, ea, streamPos)
           r == GenerateDeterministicTags(last.ShuffledC1s[1], last.ShuffledC2s[1], talliers)
           ok == VerifyDeterministicTagProof(last.ShuffledC1s[1], last.ShuffledC2s[1],
                                             talliers, r.proof)
       IN  /\ tally' = [tally EXCEPT !.stage = 4, !.VoteCredTags = r.tags,
                           !.VoteCredTagsProof = r.proof,
                           !.err = IF ok THEN "nil" ELSE "failed to verify deterministic tags"]
           /\ pc' = IF ok THEN "stage5" ELSE "tallied"
    /\ UNCHANGED <<cfg, streamPos, usedKeys, ea, kiosk, official, printer, ledger, voter,
                   cast, forgery, auxVars, ddtVars, shVars, mapVars, decVars>>

\* Stage 4: deterministic tags on the shuffled ballot credentials, by the same talliers.
TallyStage4 ==
    /\ pc = "stage4"
    /\ LET last == LastShuffled(tally.VoteRecordsShuffled)
           r == GenerateDeterministicTags(last.ShuffledC1s[1], last.ShuffledC2s[1], tally.talliers)
           ok == VerifyDeterministicTagProof(last.ShuffledC1s[1], last.ShuffledC2s[1],
                                             tally.talliers, r.proof)
       IN  /\ tally' = [tally EXCEPT !.stage = 4, !.VoteCredTags = r.tags,
                           !.VoteCredTagsProof = r.proof,
                           !.err = IF ok THEN "nil" ELSE "failed to verify deterministic tags"]
           /\ pc' = IF ok THEN "stage5" ELSE "tallied"
    /\ UNCHANGED <<cfg, streamPos, usedKeys, ea, kiosk, official, printer, ledger, voter,
                   cast, forgery, auxVars, ddtVars, shVars, mapVars, decVars>>

\* Stage 5: the votes whose tag is a registration tag are retained.
TallyStage5 ==
    /\ pc = "stage5"
    /\ tally' = [tally EXCEPT !.stage = 5,
                    !.RealEncVotes = filterForRealVotes(tally.RegCredTags, tally.VoteCredTags,
                                         LastShuffled(tally.VoteRecordsShuffled))]
    /\ pc' = "stage6"
    /\ UNCHANGED <<cfg, streamPos, usedKeys, ea, kiosk, official, printer, ledger, voter,
                   cast, forgery, auxVars, ddtVars, shVars, mapVars, decVars>>

\* Stage 6: the retained votes are decrypted and classified.
TallyStage6 ==
    /\ pc = "stage6"
    /\ LET r == decryptVotes(ea, tally.RealEncVotes)
       IN  /\ tally' = [tally EXCEPT !.stage = 6, !.RealDecVotes = r.votes, !.err = r.err]
           /\ pc' = IF r.err = "nil" THEN "stage7" ELSE "tallied"
    /\ UNCHANGED <<cfg, streamPos, usedKeys, ea, kiosk, official, printer, ledger, voter,
                   cast, forgery, auxVars, ddtVars, shVars, mapVars, decVars>>

\* Stage 7: the counts and the winner.
TallyStage7 ==
    /\ pc = "stage7"
    /\ tally' = [tally EXCEPT !.stage = 7,
                    !.Results = TallyResults(tally.RealDecVotes),
                    !.Winner = Winner(TallyResults(tally.RealDecVotes))]
    /\ pc' = "tallied"
    /\ UNCHANGED <<cfg, streamPos, usedKeys, ea, kiosk, official, printer, ledger, voter,
                   cast, forgery, auxVars, ddtVars, shVars, mapVars, decVars>>

Next ==
    \/ GenerateEnvelopes
    \/ CreateRealCredential
    \/ CreateTestCredential
    \/ CheckOut
    \/ Activate
    \/ PostCredentials
    \/ CastBallot
    \/ TallyStart
    \/ TallyStage1
    \/ TallyStage2
    \/ TallyStage3
    \/ TallyStage4
    \/ TallyStage5
    \/ TallyStage6
    \/ TallyStage7

Spec == ElectionInit /\ [][Next]_vars

Completed == pc = "tallied" /\ tally.err = "nil"

(* ------------------------------------------------------------------ *)
(* The ledger under a writer that is not the honest flow                *)
(* ------------------------------------------------------------------ *)
\* Ledger.AppendVoteRecord and Ledger.AppendRegistrationRecord take any entry.  Before
\* the tally, one entry is written by a party that holds the last voter's materials
\* and the public ledger, and chooses its own randomness.
AppendForged(entry, kind, m, vote) ==
    /\ ledger' = [ledger EXCEPT !.votes = Append(@, entry)]
    /\ cast' = Append(cast, [real |-> FALSE, vote |-> vote, cred |-> entry.CredPk])
    /\ forgery' = kind
    /\ UNCHANGED <<cfg, streamPos, usedKeys, ea, kiosk, official, printer, voter, pc, tally,
                   auxVars, ddtVars, shVars, mapVars, decVars>>

\* A ballot made as Flow.CastVote makes it, with a credential of the writer's own
\* making that the election authority never posted.
ForgeUnlistedBallot ==
    /\ pc = "tally" /\ forgery = "none"
    /\ \E vote \in {0, 1}, x \in 1..MaxRand :
          LET sk == FreshFrom(1, usedKeys)
              own == [Credential |-> [private |-> sk, public |-> Mul(sk, G)]]
          IN  /\ \A i \in 1..Len(ledger.credentials) : ledger.credentials[i].CredPk # Mul(sk, G)
              /\ AppendForged(CastVote(own, vote, eaPublicKey, cfg.seed, x), "unlisted", own, vote)

\* A ballot of the ledger whose encrypted vote and vote proof are replaced by those
\* of another ballot, under the signature made for the original payload.
ForgeStaleSignature ==
    /\ pc = "tally" /\ forgery = "none"
    /\ \E i, j \in 1..Len(ledger.votes) :
          LET e == ledger.votes[i]
              o == ledger.votes[j]
          IN  /\ e.EncVote # o.EncVote
              /\ AppendForged([e EXCEPT !.EncVote = o.EncVote, !.EncVoteProof = o.EncVoteProof],
                              "signature", e, cast[j].vote)

\* A ballot signed with a listed credential, one of whose proofs was made without
\* a witness: the credential proof for another shared secret, or the vote proof
\* for an encryption of 2G.
ForgeBadProof ==
    /\ pc = "tally" /\ forgery = "none"
    /\ \E k \in 1..Len(voter.materials), x \in 1..MaxRand, which \in {"credential", "vote"} :
          LET m == voter.materials[k]
              honest == CastVote(m, 1, eaPublicKey, cfg.seed, x)
              enc == ElGamalEncryptPoint(eaPublicKey, Mul(2, G), x)
              entry == IF which = "credential"
                         THEN [honest EXCEPT !.EncCredPkProof =
                                  NewElGamalProof("EncCred",
                                     [X |-> Add(honest.EncCredPkProof.points.X, G),
                                      C1 |-> honest.EncCredPk.C1, G |-> G, eaPk |-> eaPublicKey],
                                     [x |-> Pick(cfg.seed, x)])]
                         ELSE [honest EXCEPT !.EncVote = enc.ct, !.EncVoteProof =
                                  NewElGamalProof("Vote",
                                     [C1 |-> enc.ct.C1, C2 |-> enc.ct.C2,
                                      C2Prime |-> Sub(enc.ct.C2, G), G |-> G, eaPk |-> eaPublicKey],
                                     [x |-> x, choice |-> 1])]
          IN  /\ PointString(m.Credential.public) \in
                    {PointString(ledger.credentials[i].CredPk) : i \in 1..Len(ledger.credentials)}
              /\ AppendForged(VotingEntrySign(entry, m.Credential.private), "proof", m, 1)

\* A ballot signed with a listed credential whose encrypted credential is the
\* ciphertext of a registration entry, with the proof object of an encryption of
\* the writer's own.
ForgeReboundCredential ==
    /\ pc = "tally" /\ forgery = "none"
    /\ \E k \in 1..Len(voter.materials), id \in DOMAIN ledger.registration,
          vote \in {0, 1}, x \in 1..MaxRand :
          LET m == voter.materials[k]
              honest == CastVote(m, vote, eaPublicKey, cfg.seed, x)
              entry == [honest EXCEPT !.EncCredPk = ledger.registration[id].EncVoterPk]
          IN  /\ PointString(m.Credential.public) \in
                    {PointString(ledger.credentials[i].CredPk) : i \in 1..Len(ledger.credentials)}
              /\ entry.EncCredPk # honest.EncCredPk
              /\ AppendForged(VotingEntrySign(entry, m.Credential.private), "rebound", m, vote)

\* A ballot signed with the real credential whose encrypted vote encrypts 2G, with
\* the proof object of an encryption of G.
ForgeOtherPointVote ==
    /\ pc = "tally" /\ forgery = "none"
    /\ \E x \in 1..MaxRand :
          LET m == voter.materials[1]
              honest == CastVote(m, 1, eaPublicKey, cfg.seed, x)
              enc == ElGamalEncryptPoint(eaPublicKey, Mul(2, G), x)
              entry == [honest EXCEPT !.EncVote = enc.ct]
          IN  AppendForged(VotingEntrySign(entry, m.Credential.private), "otherpoint", m, 2)

\* A registration entry is overwritten: its ciphertext by an encryption of one of
\* the writer's credentials, or its official signature by the kiosk's.
TamperRegistration ==
    /\ pc = "tally" /\ forgery = "none"
    /\ \E id \in DOMAIN ledger.registration, k \in 1..Len(voter.materials),
          x \in 1..MaxRand, which \in {"ciphertext", "official"} :
          LET r == ledger.registration[id]
              enc == ElGamalEncryptPoint(eaPublicKey, voter.materials[k].Credential.public, x)
              entry == IF which = "ciphertext" THEN [r EXCEPT !.EncVoterPk = enc.ct]
                                               ELSE [r EXCEPT !.OfficialSig = r.KioskSig]
          IN  /\ entry # r
              /\ ledger' = [ledger EXCEPT !.registration[id] = entry]
    /\ forgery' = "registration"
    /\ UNCHANGED <<cfg, streamPos, usedKeys, ea, kiosk, official, printer, voter, cast, pc,
                   tally, auxVars, ddtVars, shVars, mapVars, decVars>>

\* The caller runs the tally again on the ledger as it stands: the finished run is
\* kept for comparison and RunTally starts from a new TallyInput and TallyOutput.
TallyRerun ==
    /\ pc = "tallied" /\ Len(history) < MaxRerun
    /\ history' = Append(history, [ledger |-> ledger, err |-> tally.err, stage |-> tally.stage,
                                    input |-> tally.input, Results |-> tally.Results])
    /\ tally' = NoTally
    /\ pc' = "tally"
    /\ UNCHANGED <<cfg, streamPos, usedKeys, ea, kiosk, official, printer, ledger, voter, cast,
                   forgery, lastOp, fault, ddtVars, shVars, mapVars, decVars>>

NextLedger ==
    \/ GenerateEnvelopes
    \/ CreateRealCredential
    \/ CreateTestCredential
    \/ CheckOut
    \/ Activate
    \/ PostCredentials
    \/ CastBallot
    \/ TallyStart
    \/ TallyStage1
    \/ TallyStage2
    \/ TallyStage3
    \/ TallyStage4
    \/ TallyStage5
    \/ TallyStage6
    \/ TallyStage7
    \/ ForgeUnlistedBallot
    \/ ForgeStaleSignature
    \/ ForgeBadProof
    \/ ForgeReboundCredential
    \/ ForgeOtherPointVote
    \/ TamperRegistration
    \/ TallyRerun
    \/ TallyEarly

SpecLedger == ElectionInit /\ [][NextLedger]_vars

\* The number of ballots cast with a real credential for vote v, and the public
\* keys of the fake credentials ballots were cast with.
RealCast(v) == Cardinality({i \in 1..Len(cast) : cast[i].real /\ cast[i].vote = v})

FakeCreds == {cast[i].cred : i \in {j \in 1..Len(cast) : ~cast[j].real}}

\* The credential the shuffled ballot at position i carries.
ShuffledCredential(i) ==
    LET last == LastShuffled(tally.VoteRecordsShuffled)
    IN  Decrypt([C1 |-> last.ShuffledC1s[1][i], C2 |-> last.ShuffledC2s[1][i]], SumSk(ea, 1)).M

RegTagSet == {tally.RegCredTags[i] : i \in 1..Len(tally.RegCredTags)}

AllRealVoteZero == \A i \in 1..Len(cast) : cast[i].real => cast[i].vote = 0

FakesOnList ==
    FakeCreds \subseteq {ledger.credentials[i].CredPk : i \in 1..Len(ledger.credentials)}

\* C2, as stated: with V voters each casting one real ballot for 0 and f fake
\* ballots for 1, the tally completes; its real-vote set holds exactly V zeros and
\* V*f ones when the fake credentials are on the credential list, and exactly V
\* zeros and zero ones when they are withheld from it.
TallyCorrectnessAsStated ==
    pc = "tallied" /\ AllRealVoteZero /\ cfg.Voters >= 2 =>
       /\ Completed
       /\ ResultAt(tally.Results, 0) = cfg.Voters
       /\ ResultAt(tally.Results, 1) =
             IF FakesOnList THEN cfg.Voters * cfg.FakeCredentialCount ELSE 0

\* C2, as the tally behaves: with V >= 2 voters each casting one real ballot for 0
\* and f fake ballots for 1, the tally with the fake credentials on the credential
\* list completes with exactly V zeros and zero ones; with the fake credentials
\* withheld from the list while their ballots are on the ledger, stage 0 fails
\* with "credential not found" and the tally has no real-vote set and no counts.
TallyCorrectness ==
    pc = "tallied" /\ AllRealVoteZero /\ cfg.Voters >= 2 =>
       IF FakesOnList
         THEN /\ Completed
              /\ Len(tally.RealDecVotes) = cfg.Voters
              /\ \A i \in 1..Len(tally.RealDecVotes) : tally.RealDecVotes[i] = 0
              /\ ResultAt(tally.Results, 0) = cfg.Voters
              /\ ResultAt(tally.Results, 1) = 0
         ELSE /\ tally.err = "credential not found in public list of credentials"
              /\ tally.stage = 0
              /\ tally.RealDecVotes = <<>> /\ tally.Results = <<>> /\ tally.Winner = ""

\* Both cases were run: a tally with the fake credentials withheld has ended.
TallyCorrectnessWitness ==
    /\ pc = "tallied" /\ AllRealVoteZero /\ cfg.Voters = NumVoters
    /\ cfg.FakeCredentialCount = MaxFake /\ ~FakesOnList
    /\ tally.err # "nil"

\* C8: the declared winner is the option with more counted votes, and equal
\* counts declare the option with the lower index, option A.
WinnerTieToLowerIndex ==
    Completed =>
       LET a == ResultAt(tally.Results, 0)
           b == ResultAt(tally.Results, 1)
       IN  tally.Winner = IF a >= b THEN "Option A" ELSE "Option B"

\* The errors of stage 0, by the kind of entry that fails.
RegistrationErrors == {"failed to verify Kiosk Signature", "failed to verify Official Signature"}

ProofErrors == {"failed to verify proof of encrypted credential",
                "failed to verify proof of encrypted vote"}

\* RunTally has been called and has not gone past its stage 0.
AbortedAtStage0 ==
    /\ pc = "tallied" /\ tally.err # "nil" /\ tally.stage = 0
    /\ tally.RegRecordsShuffled = <<>> /\ tally.RegCredTags = <<>>
    /\ tally.VoteRecordsShuffled = <<>> /\ tally.VoteCredTags = <<>>
    /\ tally.RealEncVotes = <<>> /\ tally.RealDecVotes = <<>>
    /\ tally.Results = <<>> /\ tally.Winner = ""

UnlistedBallot ==
    \E i \in 1..Len(ledger.votes) :
       \A j \in 1..Len(ledger.credentials) : ledger.credentials[j].CredPk # ledger.votes[i].CredPk

\* C3: once RunTally is called on a ledger with a voting entry whose credential is
\* not on the credential list, or with a registration or voting entry that fails a
\* signature or proof check, it returns an error with no stage after stage 0
\* started and no stage output; with enough records to tally the error is the
\* one of the failing check.
LedgerFailureIsFatal ==
    /\ pc \notin {"setup", "real", "test", "checkout", "activate", "post", "vote", "tally"}
    /\ UnlistedBallot \/ forgery \in {"signature", "proof", "registration"}
    => /\ AbortedAtStage0
       /\ Len(tally.input.RegRecords) >= 2 /\ Len(tally.input.Votes) >= 2 =>
             IF forgery = "registration" THEN tally.err \in RegistrationErrors
             ELSE IF forgery = "signature"
               THEN tally.err \in {"failed to verify signature",
                                   "credential not found in public list of credentials"}
             ELSE IF forgery = "proof"
               THEN tally.err \in ProofErrors \cup
                                   {"credential not found in public list of credentials"}
             ELSE tally.err = "credential not found in public list of credentials"

\* Every listed ballot is well signed and proved but one, whose signature is stale.
LedgerFailureIsFatalWitness ==
    /\ AbortedAtStage0 /\ forgery = "signature" /\ ~UnlistedBallot
    /\ cfg.Voters = NumVoters
    /\ tally.err = "failed to verify signature"

\* The plaintext of the i-th retained vote.
RetainedPlain(i) == Decrypt(tally.RealEncVotes[i], SumSk(ea, 1)).M

\* C9: after stage 6, if every retained vote decrypts to the identity or the
\* generator the decrypted votes are 0 for the identity and 1 for the generator,
\* position by position; if one decrypts to another point the tally has ended with
\* an error, no decrypted votes, no counts and no winner.
DecryptionClassifies ==
    tally.stage >= 6 =>
       IF \A i \in 1..Len(tally.RealEncVotes) : RetainedPlain(i) \in {Null, G}
         THEN /\ tally.err = "nil"
              /\ Len(tally.RealDecVotes) = Len(tally.RealEncVotes)
              /\ \A i \in 1..Len(tally.RealEncVotes) :
                    tally.RealDecVotes[i] = IF RetainedPlain(i) = Null THEN 0 ELSE 1
         ELSE /\ pc = "tallied" /\ tally.stage = 6 /\ tally.err # "nil"
              /\ tally.RealDecVotes = <<>> /\ tally.Results = <<>> /\ tally.Winner = ""

\* A retained vote decrypted to 2G and the tally stopped in stage 6.
DecryptionClassifiesWitness ==
    /\ pc = "tallied" /\ tally.stage = 6 /\ forgery = "otherpoint"
    /\ \E i \in 1..Len(tally.RealEncVotes) : RetainedPlain(i) = Mul(2, G)
    /\ \E i \in 1..Len(tally.RealEncVotes) : RetainedPlain(i) \in {Null, G}
    /\ tally.err # "nil"

\* C10: a voting entry that passes VotingEntry.Verify against the credential list
\* carries an encrypted credential that decrypts to the entry's credential key.
EncCredentialBinding ==
    \A i \in 1..Len(ledger.votes) :
       VotingEntryVerify(ledger.votes[i],
           {PointString(ledger.credentials[j].CredPk) : j \in 1..Len(ledger.credentials)}) = "nil"
       => Decrypt(ledger.votes[i].EncCredPk, SumSk(ea, 1)).M = ledger.votes[i].CredPk

\* The authorized list verifyLedgerContents compiles from the credential records.
AuthorizedCredList ==
    {PointString(ledger.credentials[j].CredPk) : j \in 1..Len(ledger.credentials)}

\* C11: a voting entry that passes VotingEntry.Verify against the credential list
\* carries an encrypted vote that decrypts to the identity or to the generator, so
\* no vote admitted by stage 0 decrypts to another point in stage 6.
EncVoteIsZeroOrOne ==
    /\ \A i \in 1..Len(ledger.votes) :
          VotingEntryVerify(ledger.votes[i], AuthorizedCredList) = "nil"
          => Decrypt(ledger.votes[i].EncVote, SumSk(ea, 1)).M \in {Null, G}
    /\ tally.stage >= 6 =>
          \A i \in 1..Len(tally.RealEncVotes) : RetainedPlain(i) \in {Null, G}

\* The set of registration records a tally input holds.
RecordSet(rs) == {rs[i] : i \in 1..Len(rs)}

\* C14: no step of RunTally (ledger verification included) changes a registration,
\* credential, envelope or voting record, whether the run goes on or aborts; and a
\* run made again on the same ledger reads the same records and ends with the same
\* error, at the same stage, with the same counts.
TallyLeavesLedger ==
    /\ [][tally' # tally => ledger' = ledger]_vars
    /\ [](\A n \in 1..Len(history) :
             (pc = "tallied" /\ history[n].ledger = ledger) =>
                /\ tally.err = history[n].err
                /\ tally.stage = history[n].stage
                /\ tally.Results = history[n].Results
                /\ tally.input.Votes = history[n].input.Votes
                /\ tally.input.Creds = history[n].input.Creds
                /\ RecordSet(tally.input.RegRecords) = RecordSet(history[n].input.RegRecords))

\* A run that aborted is followed by a second run on the same ledger.
TallyLeavesLedgerWitness ==
    /\ pc = "tallied" /\ Len(history) = 1
    /\ history[1].err # "nil" /\ history[1].ledger = ledger
    /\ Len(ledger.votes) >= 2 /\ Len(tally.input.Votes) >= 2

\* C16: RunTally on an input with fewer than two registration records or fewer than
\* two voting records returns the error of the input validation and runs no stage:
\* the ledger is not verified, nothing is shuffled, tagged or decrypted.
TooFewRecordsRejected ==
    (/\ pc \in {"stage1", "stage2", "stage3", "stage4", "stage5", "stage6", "stage7", "tallied"}
     /\ (Len(tally.input.RegRecords) < 2 \/ Len(tally.input.Votes) < 2)) =>
        /\ pc = "tallied"
        /\ tally.err = "not enough registration or voting records to tally"
        /\ tally = [NoTally EXCEPT !.talliers = tally.talliers, !.input = tally.input,
                                   !.err = tally.err]

\* A run on two registration records and one ballot, and a run on one registration
\* record whose ledger holds a ballot that would not pass verification.
TooFewRecordsRejectedWitness ==
    /\ pc = "tallied"
    /\ \/ Len(tally.input.RegRecords) >= 2 /\ Len(tally.input.Votes) = 1
       \/ /\ Len(tally.input.RegRecords) = 1 /\ Len(tally.input.Votes) >= 2
          /\ verifyLedgerContents(tally.input.RegRecords, tally.input.Creds,
                                  tally.input.Votes) # "nil"

(* ------------------------------------------------------------------ *)
(* The ledger's operations, called in any order (package ledger)       *)
(* ------------------------------------------------------------------ *)
\* Ledger.AppendRegistrationRecord: the map is assigned at the voter's ID.
AppendRegistrationRecord(l, voterID, entry) ==
    [l EXCEPT !.registration =
        [id \in DOMAIN l.registration \cup {voterID} |->
            IF id = voterID THEN entry ELSE l.registration[id]]]

\* Ledger.AppendEnvelopeRecord: the map is assigned at the hash of the challenge
\* bytes; two challenges have the same hash only if they are the same.
AppendEnvelopeRecord(l, entry) ==
    [l EXCEPT !.envelopes =
        [c \in DOMAIN l.envelopes \cup {entry.ChallengeBytes} |->
            IF c = entry.ChallengeBytes THEN entry ELSE l.envelopes[c]]]

\* Ledger.MarkEnvelopeUsed: the ledger after the call and the error it returns.
MarkEnvelopeUsed(l, challenge) ==
    IF challenge \notin DOMAIN l.envelopes
      THEN [ledger |-> l, err |-> "envelope with given challenge does not exist on ledger"]
    ELSE IF l.envelopes[challenge].IsUsed
      THEN [ledger |-> l, err |-> "envelope with given challenge has already been used"]
    ELSE [ledger |-> [l EXCEPT !.envelopes[challenge].IsUsed = TRUE], err |-> "nil"]

AppendCredentialRecord(l, entry) == [l EXCEPT !.credentials = Append(@, entry)]

AppendVoteRecord(l, entry) == [l EXCEPT !.votes = Append(@, entry)]

\* A ledger under callers that hold no more than its interface.
OpsInit ==
    /\ ElectionIdle /\ DDTIdle /\ ShuffleIdle /\ MapIdle /\ DecIdle

\* One call of a ledger operation leaves in lastOp its name, whether it returned
\* without error, and the ledger and the tally input as they were before it.
Called(op, ok) ==
    /\ lastOp' = [op |-> op, ok |-> ok, before |-> ledger, input |-> tally.input]
    /\ UNCHANGED <<cfg, streamPos, usedKeys, ea, kiosk, official, printer, voter, cast, forgery,
                   pc, history, fault, ddtVars, shVars, mapVars, decVars>>

OpAppendRegistration ==
    /\ pc = "off"
    /\ \E id \in 1..NumVoters, m \in 1..MaxMsg :
          ledger' = AppendRegistrationRecord(ledger, id,
                       [VoterID |-> id, EncVoterPk |-> [C1 |-> G, C2 |-> Mul(m, G)]])
    /\ Called("AppendRegistrationRecord", TRUE)
    /\ UNCHANGED tally

OpAppendEnvelope ==
    /\ pc = "off"
    /\ \E c \in 1..MaxMsg :
          ledger' = AppendEnvelopeRecord(ledger,
                       [ChallengeBytes |-> c, PrinterSig |-> SchnorrSign(1, <<c>>), IsUsed |-> FALSE])
    /\ Called("AppendEnvelopeRecord", TRUE)
    /\ UNCHANGED tally

OpMarkEnvelopeUsed ==
    /\ pc = "off"
    /\ \E c \in 1..(MaxMsg + 1) :
          LET r == MarkEnvelopeUsed(ledger, c)
          IN  ledger' = r.ledger /\ Called("MarkEnvelopeUsed", r.err = "nil")
    /\ UNCHANGED tally

OpAppendCredential ==
    /\ pc = "off" /\ Len(ledger.credentials) < MaxBatch
    /\ ledger' = AppendCredentialRecord(ledger, [CredPk |-> Mul(Len(ledger.credentials) + 1, G)])
    /\ Called("AppendCredentialRecord", TRUE)
    /\ UNCHANGED tally

OpAppendVote ==
    /\ pc = "off" /\ Len(ledger.votes) < MaxBatch
    /\ ledger' = AppendVoteRecord(ledger, [CredPk |-> Mul(Len(ledger.votes) + 1, G)])
    /\ Called("AppendVoteRecord", TRUE)
    /\ UNCHANGED tally

\* NewTallyInput, called once: the records the getters return at the time of the call.
OpNewTallyInput ==
    /\ pc = "off" /\ tally.input = NoTally.input
    /\ \E order \in Orders(DOMAIN ledger.registration) :
          tally' = [tally EXCEPT !.input =
                       [RegRecords |-> [i \in 1..Len(order) |-> ledger.registration[order[i]]],
                        Votes |-> ledger.votes,
                        Creds |-> ledger.credentials]]
    /\ Called("NewTallyInput", TRUE)
    /\ UNCHANGED ledger

NextOps ==
    \/ OpAppendRegistration
    \/ OpAppendEnvelope
    \/ OpMarkEnvelopeUsed
    \/ OpAppendCredential
    \/ OpAppendVote
    \/ OpNewTallyInput

SpecOps == OpsInit /\ [][NextOps]_vars

\* C12: across any ledger operation a used envelope stays on the ledger and stays
\* used, and MarkEnvelopeUsed succeeds exactly for a known, unused challenge, sets
\* that envelope's flag and nothing else, and leaves the ledger as it was when it fails.
EnvelopeUsedOnce ==
    /\ \A c \in DOMAIN lastOp.before.envelopes :
          lastOp.before.envelopes[c].IsUsed =>
             c \in DOMAIN ledger.envelopes /\ ledger.envelopes[c].IsUsed
    /\ lastOp.op = "MarkEnvelopeUsed" =>
          IF lastOp.ok
            THEN \E c \in DOMAIN lastOp.before.envelopes :
                    /\ ~lastOp.before.envelopes[c].IsUsed
                    /\ ledger = [lastOp.before EXCEPT !.envelopes[c].IsUsed = TRUE]
            ELSE ledger = lastOp.before

\* C13: across any Append operation every record already stored in the
\* registration, envelope, credential or voting sub-ledger is still stored,
\* unchanged but for an envelope's used flag, and the input taken for the tally is
\* the same as before.
LedgerAppendOnly ==
    lastOp.op \in {"AppendRegistrationRecord", "AppendEnvelopeRecord",
                   "AppendCredentialRecord", "AppendVoteRecord"} =>
       /\ \A id \in DOMAIN lastOp.before.registration :
             id \in DOMAIN ledger.registration
             /\ ledger.registration[id] = lastOp.before.registration[id]
       /\ \A c \in DOMAIN lastOp.before.envelopes :
             c \in DOMAIN ledger.envelopes
             /\ ledger.envelopes[c].PrinterSig = lastOp.before.envelopes[c].PrinterSig
             /\ (lastOp.before.envelopes[c].IsUsed => ledger.envelopes[c].IsUsed)
       /\ SubSeq(ledger.credentials, 1, Len(lastOp.before.credentials)) = lastOp.before.credentials
       /\ SubSeq(ledger.votes, 1, Len(lastOp.before.votes)) = lastOp.before.votes
       /\ tally.input = lastOp.input

(* ------------------------------------------------------------------ *)
(* RunTally when an operation inside a stage returns an error          *)
(* ------------------------------------------------------------------ *)
\* The steps of an action that ends the run: everything but the tally state, the
\* program position and the recorded failure is left alone.
StageFails(kind, stage, err, next) ==
    /\ fault = "none"
    /\ fault' = kind
    /\ tally' = [tally EXCEPT !.stage = stage, !.err = err]
    /\ pc' = next
    /\ UNCHANGED <<cfg, streamPos, usedKeys, ea, kiosk, official, printer, ledger, voter, cast,
                   forgery, history, lastOp, ddtVars, shVars, mapVars, decVars>>

\* Stages 1 and 3 when the shuffle returns an error: the closure returns it, Record
\* passes it on and RunTally returns it.
ShuffleFails ==
    /\ pc \in {"stage1", "stage3"}
    /\ StageFails("shuffle", IF pc = "stage1" THEN 1 ELSE 3, "shuffle failed", "tallied")

\* Stages 2 and 4 when GenerateDeterministicTags returns (nil, nil, err): the closure
\* assigns err and returns nil, the assignment of Record's result sets err back to
\* nil, and VerifyDeterministicTagProof reads Round1Bundles of the nil proof.
TagGenerationFails ==
    /\ pc \in {"stage2", "stage4"}
    /\ StageFails("tag generation", IF pc = "stage2" THEN 2 ELSE 4, "nil", "panicked")

\* Stages 2 and 4 when VerifyDeterministicTagProof returns an error.
TagVerificationFails ==
    /\ pc \in {"stage2", "stage4"}
    /\ StageFails("tag verification", IF pc = "stage2" THEN 2 ELSE 4,
                  "failed to verify deterministic tags", "tallied")

\* Stage 6 when MultiKeyDecryptWithProof returns (nil, nil, err) for a retained vote:
\* the closure assigns err and returns nil, Record's nil replaces it, no proof is
\* there to verify and Equal is called on the nil point.
DecryptFails ==
    /\ pc = "stage6" /\ Len(tally.RealEncVotes) > 0
    /\ StageFails("threshold decryption", 6, "nil", "panicked")

\* Stage 6 when the Verify of a decryption proof returns an error.
DecryptionProofFails ==
    /\ pc = "stage6" /\ Len(tally.RealEncVotes) > 0
    /\ StageFails("decryption proof", 6, "decryption proof failed", "tallied")

NextFault ==
    \/ GenerateEnvelopes
    \/ CreateRealCredential
    \/ CreateTestCredential
    \/ CheckOut
    \/ Activate
    \/ PostCredentials
    \/ CastBallot
    \/ TallyStart
    \/ TallyStage1
    \/ TallyStage2
    \/ TallyStage3
    \/ TallyStage4
    \/ TallyStage5
    \/ TallyStage6
    \/ TallyStage7
    \/ ShuffleFails
    \/ TagGenerationFails
    \/ TagVerificationFails
    \/ DecryptFails
    \/ DecryptionProofFails

SpecFault == ElectionInit /\ [][NextFault]_vars

\* C15: when an operation inside a tally stage (shuffle, tag generation, tag-proof
\* verification, threshold decryption, decryption-proof verification) returns an
\* error, RunTally returns a non-nil error to its caller and no later stage runs.
StageErrorsSurfaced ==
    fault # "none" => pc = "tallied" /\ tally.err # "nil"

(* ------------------------------------------------------------------ *)
(* concurrency.ForEach and concurrency.Map                             *)
(* ------------------------------------------------------------------ *)
\* The worker of Tallier.PerformRound2 under one tallier: the re-masked ciphertext
\* of an item, or an error when the proof of the item cannot be made.
MapTallier == NewTallier(1, Pick(0, 0), Pick(0, 1))

WorkerResult(item) == remaskCiphertext(MapTallier, item.c1, item.c2)

WorkerError(op) ==
    IF op = "Map" THEN "failed to generate round 2 proof" ELSE "combined proof failed"

\* The zero value a fresh results slice holds at every index.
ZeroResult == [newC1 |-> Null, newC2 |-> Null]

ItemSet == {[c1 |-> G, c2 |-> Mul(k, G), fails |-> b] : k \in {2, 3}, b \in BOOLEAN}

\* The sequential loop from item i on: it returns at the first error.
RECURSIVE SequentialLoop(_, _, _, _, _)
SequentialLoop(op, items, i, results, calls) ==
    IF i > Len(items)
      THEN [results |-> results, err |-> "nil", from |-> 0, calls |-> calls]
      ELSE IF items[i].fails
             THEN [results |-> <<>>, err |-> WorkerError(op), from |-> i,
                   calls |-> calls \o <<<<"call", i>>, <<"error", i>>>>]
             ELSE SequentialLoop(op, items, i + 1,
                     IF op = "Map" THEN [results EXCEPT ![i] = WorkerResult(items[i])]
                                   ELSE results,
                     calls \o <<<<"call", i>>, <<"return", i>>>>)

SequentialPath(op, items) ==
    SequentialLoop(op, items, 1,
                   IF op = "Map" THEN [i \in 1..Len(items) |-> ZeroResult] ELSE <<>>, <<>>)

\* A worker of Map stores its result: at the next free index, and at the index of
\* its job.
StoreResultAtNextFree(results, i, res) ==
    LET free == {k \in 1..Len(results) : results[k] = ZeroResult}
    IN  IF free = {} THEN results
        ELSE [results EXCEPT ![CHOOSE k \in free : \A j \in free : k <= j] = res]

StoreResult(results, i, res) == [results EXCEPT ![i] = res]

\* What the parallel path returns after wg.Wait: the results whatever the errors,
\* and the first error of the channel if there is one.
ParallelReturnIgnoringErrors(results, errs, op) ==
    [results |-> results, err |-> "nil", from |-> 0]

ParallelReturn(results, errs, op) ==
    IF Len(errs) > 0 THEN [results |-> <<>>, err |-> WorkerError(op), from |-> errs[1]]
                     ELSE [results |-> results, err |-> "nil", from |-> 0]

\* The test for the loop in the caller's goroutine: on the item count alone, and as
\* ForEach and Map make it, '!parallel || numItems < minItemsForParallel'.
RunsSequentiallySmallOnly(cores, numItems) == numItems < minItemsForParallel

RunsSequentially(cores, numItems) == ~(cores > 1) \/ numItems < minItemsForParallel

\* The capacity of the jobs and errs channels: a channel that holds one value, and
\* make(chan, numItems).
ChanCapOne(numItems) == 1

ChanCap(numItems) == numItems

\* A call of ForEach or Map on a slice of items with a configured number of cores.
MapInit ==
    /\ cItems \in UNION {[1..n -> ItemSet] : n \in 0..MaxItems}
    /\ cCores \in 1..MaxCores
    /\ cOp \in {"Map", "ForEach"}
    /\ cJobs = <<>> /\ cClosed = FALSE /\ cErrs = <<>> /\ cResults = <<>>
    /\ cWorkers = <<>> /\ cCalls = <<>>
    /\ cRet = [results |-> <<>>, err |-> "nil", from |-> 0]
    /\ cPc = "start"
    /\ ElectionIdle /\ DDTIdle /\ ShuffleIdle /\ DecIdle

\* No items: ForEach returns nil, Map returns an error.
ReturnEmpty ==
    /\ cPc = "start" /\ Len(cItems) = 0
    /\ cRet' = [results |-> <<>>, err |-> IF cOp = "Map" THEN "no items to map" ELSE "nil",
                from |-> 0]
    /\ cPc' = "done"
    /\ UNCHANGED <<cItems, cCores, cOp, cJobs, cClosed, cErrs, cResults, cWorkers, cCalls,
                   ddtVars, shVars, elVars, decVars>>

\* One core, or fewer items than the threshold: the loop in the caller's goroutine.
RunSequential ==
    /\ cPc = "start" /\ Len(cItems) > 0
    /\ RunsSequentially(cCores, Len(cItems))
    /\ LET r == SequentialPath(cOp, cItems)
       IN  /\ cRet' = [results |-> r.results, err |-> r.err, from |-> r.from]
           /\ cCalls' = r.calls
    /\ cPc' = "done"
    /\ UNCHANGED <<cItems, cCores, cOp, cJobs, cClosed, cErrs, cResults, cWorkers,
                   ddtVars, shVars, elVars, decVars>>

\* The parallel path: the results slice, the two channels and one goroutine per core.
StartParallel ==
    /\ cPc = "start" /\ Len(cItems) > 0
    /\ ~RunsSequentially(cCores, Len(cItems))
    /\ cResults' = IF cOp = "Map" THEN [i \in 1..Len(cItems) |-> ZeroResult] ELSE <<>>
    /\ cWorkers' = [w \in 1..cCores |-> 0]
    /\ cPc' = "enqueue"
    /\ UNCHANGED <<cItems, cCores, cOp, cJobs, cClosed, cErrs, cCalls, cRet,
                   ddtVars, shVars, elVars, decVars>>

\* A count of the jobs sent that forgets those already taken from the channel.
SentInChannel == Len(cJobs)

\* The number of jobs sent so far: those in the channel and those taken from it.
Sent == Len(cJobs) + Cardinality({n \in 1..Len(cCalls) : cCalls[n][1] = "call"})

\* jobs <- i, which waits while the channel is full.
Enqueue ==
    /\ cPc = "enqueue" /\ Sent < Len(cItems)
    /\ Len(cJobs) < ChanCap(Len(cItems))
    /\ cJobs' = Append(cJobs, Sent + 1)
    /\ UNCHANGED <<cItems, cCores, cOp, cClosed, cErrs, cResults, cWorkers, cCalls, cRet, cPc,
                   ddtVars, shVars, elVars, decVars>>

\* close(jobs)
CloseJobs ==
    /\ cPc = "enqueue" /\ Sent = Len(cItems)
    /\ cClosed' = TRUE
    /\ cPc' = "wait"
    /\ UNCHANGED <<cItems, cCores, cOp, cJobs, cErrs, cResults, cWorkers, cCalls, cRet,
                   ddtVars, shVars, elVars, decVars>>

\* A goroutine receives an index from jobs and calls the worker function.
WorkerTake ==
    /\ cPc \in {"enqueue", "wait"} /\ cJobs # <<>>
    /\ \E w \in 1..Len(cWorkers) :
          /\ cWorkers[w] = 0
          /\ cWorkers' = [cWorkers EXCEPT ![w] = Head(cJobs)]
    /\ cCalls' = Append(cCalls, <<"call", Head(cJobs)>>)
    /\ cJobs' = Tail(cJobs)
    /\ UNCHANGED <<cItems, cCores, cOp, cClosed, cErrs, cResults, cRet, cPc,
                   ddtVars, shVars, elVars, decVars>>

\* The worker function returns: an error goes to errs, which waits while the channel
\* is full, a result of Map to results[i].
WorkerFinish ==
    /\ cPc \in {"enqueue", "wait"}
    /\ \E w \in 1..Len(cWorkers) :
          LET i == cWorkers[w]
          IN  /\ i > 0
              /\ cWorkers' = [cWorkers EXCEPT ![w] = 0]
              /\ IF cItems[i].fails
                   THEN /\ Len(cErrs) < ChanCap(Len(cItems))
                        /\ cErrs' = Append(cErrs, i)
                        /\ cCalls' = Append(cCalls, <<"error", i>>)
                        /\ UNCHANGED cResults
                   ELSE /\ cResults' = IF cOp = "Map"
                                         THEN StoreResult(cResults, i, WorkerResult(cItems[i]))
                                         ELSE cResults
                        /\ cCalls' = Append(cCalls, <<"return", i>>)
                        /\ UNCHANGED cErrs
    /\ UNCHANGED <<cItems, cCores, cOp, cJobs, cClosed, cRet, cPc, ddtVars, shVars, elVars, decVars>>

\* The range over the closed, empty jobs channel ends and the goroutine is done.
WorkerExit ==
    /\ cPc = "wait" /\ cClosed /\ cJobs = <<>>
    /\ \E w \in 1..Len(cWorkers) :
          /\ cWorkers[w] = 0
          /\ cWorkers' = [cWorkers EXCEPT ![w] = -1]
    /\ UNCHANGED <<cItems, cCores, cOp, cJobs, cClosed, cErrs, cResults, cCalls, cRet, cPc,
                   ddtVars, shVars, elVars, decVars>>

\* wg.Wait returns, errs is closed and the call returns.
ReturnParallel ==
    /\ cPc = "wait"
    /\ \A w \in 1..Len(cWorkers) : cWorkers[w] = -1
    /\ cRet' = ParallelReturn(cResults, cErrs, cOp)
    /\ cPc' = "done"
    /\ UNCHANGED <<cItems, cCores, cOp, cJobs, cClosed, cErrs, cResults, cWorkers, cCalls,
                   ddtVars, shVars, elVars, decVars>>

NextMap ==
    \/ ReturnEmpty
    \/ RunSequential
    \/ StartParallel
    \/ Enqueue
    \/ CloseJobs
    \/ WorkerTake
    \/ WorkerFinish
    \/ WorkerExit
    \/ ReturnParallel

SpecMap == MapInit /\ [][NextMap]_vars

\* The call took the parallel path.
Parallel == cCores > 1 /\ Len(cItems) >= minItemsForParallel

\* C17: for every input length, core count and scheduling of the workers, a Map
\* that returns no error returns as many results as items, with results[i] the
\* worker function applied to items[i].
MapPreservesOrder ==
    (cPc = "done" /\ cOp = "Map" /\ cRet.err = "nil") =>
        /\ Len(cRet.results) = Len(cItems)
        /\ \A i \in 1..Len(cItems) : cRet.results[i] = WorkerResult(cItems[i])

\* A parallel Map over items with different results whose calls did not return in
\* the order of the input.
MapPreservesOrderWitness ==
    /\ cPc = "done" /\ cOp = "Map" /\ cRet.err = "nil" /\ Parallel
    /\ Len(cItems) = MaxItems
    /\ WorkerResult(cItems[1]) # WorkerResult(cItems[2])
    /\ \E m, n \in 1..Len(cCalls) :
          /\ m < n /\ cCalls[m][1] = "return" /\ cCalls[n][1] = "return"
          /\ cCalls[m][2] > cCalls[n][2]

\* C18: in a parallel region the first error cancels the pending work: no call of
\* the worker function starts after a call has returned an error, and the caller
\* gets that first error.
FirstErrorCancels ==
    Parallel =>
        /\ \A m, n \in 1..Len(cCalls) :
              (m < n /\ cCalls[m][1] = "error") => cCalls[n][1] # "call"
        /\ (cPc = "done" /\ Len(cErrs) > 0) =>
              /\ cRet.err # "nil"
              /\ cRet.from = cErrs[1]

\* C19: whatever the number of cores and the scheduling, a call accepts exactly when
\* the run with one worker accepts, and an accepting Map returns the results the
\* run with one worker returns (the re-masked ciphertexts the tags are made of).
ParallelismEquivalence ==
    (cPc = "done" /\ Len(cItems) > 0) =>
        LET one == SequentialPath(cOp, cItems)
        IN  /\ (cRet.err = "nil") = (one.err = "nil")
            /\ cRet.err = "nil" => cRet.results = one.results

\* A parallel run that aborts although the item called first is sound, with two
\* errors sent in the reverse of the input order.
ParallelismEquivalenceWitness ==
    /\ cPc = "done" /\ Parallel /\ cRet.err # "nil"
    /\ ~cItems[cCalls[1][2]].fails
    /\ Len(cErrs) >= 2 /\ cErrs[1] > cErrs[2]

(* ------------------------------------------------------------------ *)
(* Threshold decryption under the shares of NewDKG                     *)
(* ------------------------------------------------------------------ *)
\* N trustees' shares from NewDKG and a message point.
DecInit ==
    /\ \E seed \in 0..MaxSeed, N \in 1..MaxShares : tShares = NewDKG(seed, N)
    /\ tPlain \in Points
    /\ tCt = [C1 |-> Null, C2 |-> Null]
    /\ tOut = [M |-> Null, proofs |-> <<>>]
    /\ tPc = "encrypt"
    /\ tCall = [fn |-> "none"] /\ tRet = [fn |-> "none"]
    /\ ElectionIdle /\ DDTIdle /\ ShuffleIdle /\ MapIdle

\* ElGamalEncryptPoint of the message under the collective key.
ThresholdEncrypt ==
    /\ tPc = "encrypt"
    /\ \E x \in 1..MaxRand :
          tCt' = ElGamalEncryptPoint(CollectivePK(tShares), tPlain, x).ct
    /\ tPc' = "decrypt"
    /\ UNCHANGED <<tShares, tPlain, tOut, tCall, tRet, ddtVars, shVars, elVars, mapVars>>

\* MultiKeyDecryptWithProof with all the shares.
ThresholdDecrypt ==
    /\ tPc = "decrypt"
    /\ tOut' = MultiKeyDecryptWithProof(tCt, tShares)
    /\ tPc' = "done"
    /\ UNCHANGED <<tShares, tPlain, tCt, tCall, tRet, ddtVars, shVars, elVars, mapVars>>

NextDec ==
    \/ ThresholdEncrypt
    \/ ThresholdDecrypt

SpecDec == DecInit /\ [][NextDec]_vars

\* The sum of the shared secrets the proofs of a decryption were made for.
RECURSIVE SumX(_, _)
SumX(proofs, i) == IF i > Len(proofs) THEN Null ELSE Add(proofs[i].points.X, SumX(proofs, i + 1))

\* C20: for N >= 1 shares of NewDKG, whose public keys add up to the collective
\* key, MultiKeyDecryptWithProof on an encryption of M under that key returns M;
\* C1 stays the ciphertext's C1 for every member, the result is C2 less every
\* member's partial decryption, there is one proof per share and each verifies.
ThresholdDecryptionCorrect ==
    /\ CollectivePK(tShares) = Mul(SumSk(tShares, 1), G)
    /\ tPc = "done" =>
          /\ tOut.M = tPlain
          /\ Len(tOut.proofs) = Len(tShares)
          /\ tOut.M = Sub(tCt.C2, SumX(tOut.proofs, 1))
          /\ \A i \in 1..Len(tShares) :
                /\ ElGamalProofVerify(tOut.proofs[i])
                /\ tOut.proofs[i].Proof # BadProof
                /\ tOut.proofs[i].points.C1 = tCt.C1
                /\ tOut.proofs[i].points.Pk = tShares[i].Pk
                /\ tOut.proofs[i].points.X = Mul(tShares[i].Sk, tCt.C1)

\* Three shares have decrypted a message other than the identity.
ThresholdDecryptionCorrectWitness ==
    /\ tPc = "done" /\ Len(tShares) = MaxShares /\ tPlain # Null
    /\ tCt.C2 # tPlain /\ Len(tOut.proofs) = MaxShares

(* ------------------------------------------------------------------ *)
(* Single calls of the functions of package crypto and of the flow     *)
(* ------------------------------------------------------------------ *)
\* No call has been made yet.
CryptoInit ==
    /\ tPc = "call"
    /\ tCall = [fn |-> "none"] /\ tRet = [fn |-> "none"]
    /\ tShares = <<>> /\ tPlain = Null /\ tCt = [C1 |-> Null, C2 |-> Null]
    /\ tOut = [M |-> Null, proofs |-> <<>>]
    /\ ElectionIdle /\ DDTIdle /\ ShuffleIdle /\ MapIdle

\* A call with its arguments returns a result.
Returned(call, ret) ==
    /\ tCall' = call
    /\ tRet' = ret
    /\ tPc' = "returned"
    /\ UNCHANGED <<tShares, tPlain, tCt, tOut, ddtVars, shVars, elVars, mapVars>>

\* ElGamalEncryptPoint under the public key of a key pair, then Decrypt with its
\* private key.
CallElGamalEncryptPoint ==
    /\ tPc = "call"
    /\ \E sk \in Scalars, M \in Points, x \in Scalars :
          LET enc == ElGamalEncryptPoint(Mul(sk, G), M, x)
          IN  Returned([fn |-> "ElGamalEncryptPoint", sk |-> sk, Pk |-> Mul(sk, G), M |-> M],
                       [enc |-> enc, dec |-> Decrypt(enc.ct, sk)])

\* The interactive proof of a prover that knows x: Commit with a nonce y, a
\* challenge e, Respond, then VerifyProof on the transcript.
CallProver ==
    /\ tPc = "call"
    /\ \E x \in Scalars, y \in Scalars, e \in Scalars, k \in 1..MaxRand :
          LET eaPK == Mul(k, G)
              enc == ElGamalEncryptPoint(eaPK, G, x)
              commitment == Commit(y, eaPK)
              response == Respond(y, e, x)
          IN  Returned([fn |-> "Prover", x |-> x, y |-> y, challenge |-> e, eaPK |-> eaPK,
                        c_pc |-> enc.ct, X |-> enc.X],
                       [commitment |-> commitment, response |-> response,
                        ok |-> VerifyProof(commitment, e, response, enc.ct, enc.X, eaPK)])

\* SimulatedProver.CommitAndRespond for a challenge known in advance, on any
\* ciphertext and claimed shared secret, then VerifyProof.
CallSimulatedProver ==
    /\ tPc = "call"
    /\ \E e \in Scalars, r \in Scalars, C1 \in Points, X \in {Null, G, Mul(2, G)}, k \in 1..MaxRand :
          LET eaPK == Mul(k, G)
              c_pc == [C1 |-> C1, C2 |-> G]
              t == CommitAndRespond(r, e, c_pc, X, eaPK)
          IN  Returned([fn |-> "SimulatedProver", challenge |-> e, eaPK |-> eaPK,
                        c_pc |-> c_pc, X |-> X],
                       [commitment |-> t.commitment, response |-> t.response,
                        ok |-> VerifyProof(t.commitment, e, t.response, c_pc, X, eaPK)])

\* VerifyProof on the transcript of a prover with any commitment in place of the
\* prover's.
CallVerifyProof ==
    /\ tPc = "call"
    /\ \E x \in Scalars, y \in 1..MaxRand, e \in Scalars, k \in 1..MaxRand, Y1 \in Points, d \in {0, 1} :
          LET eaPK == Mul(k, G)
              enc == ElGamalEncryptPoint(eaPK, G, x)
              Y2 == Add(Commit(y, eaPK).Y2, Mul(d, G))
              response == Respond(y, e, x)
          IN  Returned([fn |-> "VerifyProof", x |-> x, y |-> y, challenge |-> e, eaPK |-> eaPK,
                        c_pc |-> enc.ct, X |-> enc.X, commitment |-> [Y1 |-> Y1, Y2 |-> Y2]],
                       [response |-> response,
                        ok |-> VerifyProof([Y1 |-> Y1, Y2 |-> Y2], e, response, enc.ct, enc.X, eaPK)])

\* CreateVoteWithProof under the public key of a key pair, for any integer vote.
CallCreateVoteWithProof ==
    /\ tPc = "call"
    /\ \E vote \in (0 - 1)..3, sk \in Scalars, x \in Scalars :
          Returned([fn |-> "CreateVoteWithProof", vote |-> vote, sk |-> sk, eaPK |-> Mul(sk, G)],
                   CreateVoteWithProof(Mul(sk, G), vote, x))

\* Lists of at most MaxBatch points.
PointLists == UNION {[1..m -> {G, Mul(2, G)}] : m \in 0..MaxBatch}

\* Sequences of at most MaxBatch lists of at most MaxBatch points.
SequenceLists == UNION {[1..n -> UNION {[1..m -> {G}] : m \in 0..MaxBatch}] : n \in 0..MaxBatch}

\* ElGamalComponentsToCiphertext on two lists of any lengths.
CallElGamalComponentsToCiphertext ==
    /\ tPc = "call"
    /\ \E C1s \in PointLists, C2s \in PointLists :
          Returned([fn |-> "ElGamalComponentsToCiphertext", C1s |-> C1s, C2s |-> C2s],
                   ElGamalComponentsToCiphertext(C1s, C2s))

\* PerformRound2 of one tallier on two lists of any lengths.
CallPerformRound2 ==
    /\ tPc = "call"
    /\ \E k \in 1..MaxRand, s \in 1..MaxRand, C1s \in PointLists, C2s \in PointLists :
          LET bundle == PerformRound2(NewTallier(1, k, s), C1s, C2s)
          IN  Returned([fn |-> "PerformRound2", k |-> k, s |-> s, C1s |-> C1s, C2s |-> C2s],
                       [bundle |-> bundle,
                        err |-> IF bundle = Nil
                                  THEN "input C1 and C2 slices must have the same length"
                                  ELSE "nil"])

\* VerifyRound2Bundle on a tallier's bundle whose three lists were cut or extended
\* independently after it was made.
CallVerifyRound2Bundle ==
    /\ tPc = "call"
    /\ \E k \in 1..MaxRand, s \in 1..MaxRand, C1s \in PointLists :
       \E a \in 0..(Len(C1s) + 1), b \in 0..(Len(C1s) + 1), p \in 0..Len(C1s) :
          LET t == NewTallier(1, k, s)
              C2s == [i \in 1..Len(C1s) |-> Mul(3, G)]
              made == PerformRound2(t, C1s, C2s)
              bundle == [made EXCEPT
                           !.UpdatedC1s = [i \in 1..a |-> IF i <= Len(C1s) THEN made.UpdatedC1s[i] ELSE G],
                           !.UpdatedC2s = [i \in 1..b |-> IF i <= Len(C1s) THEN made.UpdatedC2s[i] ELSE G],
                           !.RemaskingProofs = SubSeq(made.RemaskingProofs, 1, p)]
          IN  /\ Len(C1s) > 0
              /\ Returned([fn |-> "VerifyRound2Bundle", prevC1s |-> C1s, prevC2s |-> C2s,
                           bundle |-> bundle],
                          [err |-> VerifyRound2BundleErr(C1s, C2s, Mul(s, G), t.PublicKey, bundle)])

\* SequencesShuffle on sequences of any shape.
CallSequencesShuffle ==
    /\ tPc = "call"
    /\ \E X \in SequenceLists, Y \in SequenceLists, seed \in 0..MaxSeed :
          LET r == SequencesShuffle(Mul(2, G), X, Y, seed, 0)
          IN  Returned([fn |-> "SequencesShuffle", X |-> X, Y |-> Y],
                       [Xbar |-> r.ShuffledC1s, Ybar |-> r.ShuffledC2s, e |-> r.ChallengeE,
                        proofBytes |-> r.Proof, err |-> assertXY(X, Y)])

\* Decrypt on a ciphertext and a key each of which may be nil, as may either component.
CallDecrypt ==
    /\ tPc = "call"
    /\ \E ct \in {Nil} \cup [C1 : Points \cup {NilPoint}, C2 : Points \cup {NilPoint}],
          sk \in Scalars \cup {NilPoint} :
          Returned([fn |-> "Decrypt", ct |-> ct, sk |-> sk], Decrypt(ct, sk))

\* The tag values of the filter calls, one more than a registration list can hold.
TagValues == {Mul(v, G) : v \in 1..(MaxBatch + 1)}

\* filterForRealVotes on any registration tags and vote tags, the shuffled votes
\* being told apart by their position.
CallFilterForRealVotes ==
    /\ tPc = "call"
    /\ \E n \in 0..MaxBatch, m \in 0..MaxItems :
       \E RegCredTags \in [1..n -> TagValues], VoteCredTags \in [1..m -> TagValues] :
          LET last == [ShuffledC1s |-> <<[i \in 1..m |-> Null], [i \in 1..m |-> Mul(i, G)]>>,
                       ShuffledC2s |-> <<[i \in 1..m |-> Null], [i \in 1..m |-> Mul(i + MaxItems, G)]>>]
          IN  Returned([fn |-> "filterForRealVotes", RegCredTags |-> RegCredTags,
                        VoteCredTags |-> VoteCredTags, last |-> last],
                       [realEncVotes |-> filterForRealVotes(RegCredTags, VoteCredTags, last)])

\* verifySequenceShuffle and GrothVerifySequencesShuffle on the result of a member
\* that proved its shuffle of two sequences under a challenge vector e, which may or
\* may not be the derived one; the member may also keep the proof of the derived one.
CallVerifySequenceShuffle ==
    /\ tPc = "call"
    /\ \E k \in 1..MaxBatch, seed \in 0..MaxSeed, sk \in 1..MaxRand, keepProof \in BOOLEAN :
       \E creds \in [1..k -> 0..MaxMsg], e \in [1..2 -> 0..MaxRand] :
          LET pk == Mul(sk, G)
              c(i) == ElGamalEncryptPoint(pk, creds[i], i).ct
              v(i) == ElGamalEncryptPoint(pk, Null, i + MaxBatch).ct
              X == <<[i \in 1..k |-> c(i).C1], [i \in 1..k |-> v(i).C1]>>
              Y == <<[i \in 1..k |-> c(i).C2], [i \in 1..k |-> v(i).C2]>>
              honest == performSequenceShuffle(pk, X, Y, seed, 0)
              chosen == SequenceShuffleWithChallenge(pk, X, Y, seed, 0, e)
              result == IF keepProof THEN [chosen EXCEPT !.Proof = honest.Proof] ELSE chosen
          IN  Returned([fn |-> "verifySequenceShuffle", eaPublicKey |-> pk, originalX |-> X,
                        originalY |-> Y, result |-> result, prover |-> honest],
                       [err |-> ~verifySequenceShuffle(pk, X, Y, result),
                        grothErr |-> ~GrothVerifySequencesShuffle(pk, X, Y, result.ShuffledC1s,
                                                                  result.ShuffledC2s, result.Proof)])

\* Steps 2 to 7 of SequencesShuffle on two sequences of the same length, read from
\* some position of the random stream: the permutation, the randomness, the outputs,
\* the challenge, the consolidated statement of GetSequenceVerifiable and the
\* consolidated witness.
CallGetSequenceVerifiable ==
    /\ tPc = "call"
    /\ \E k \in 1..MaxBatch, seed \in 0..MaxSeed, pos \in 0..MaxRand, sk \in 1..MaxRand :
       \E X, Y \in [1..2 -> [1..k -> {G, Mul(2, G)}]] :
          LET h == Mul(sk, G)
              pi == Permutation(k, seed, pos)
              beta == Beta(2, k, seed, pos)
              out == ShuffleOutput(X, Y, h, pi, beta)
              e == deriveNonInteractiveChallenge(h, X, Y, out.Xbar, out.Ybar)
              v == GetSequenceVerifiable(X, Y, out.Xbar, out.Ybar, e)
          IN  Returned([fn |-> "GetSequenceVerifiable", h |-> h, X |-> X, Y |-> Y,
                        Xbar |-> out.Xbar, Ybar |-> out.Ybar, e |-> e, pi |-> pi, beta |-> beta],
                       [XUp |-> v.XUp, YUp |-> v.YUp, XDown |-> v.XDown, YDown |-> v.YDown,
                        beta2 |-> Beta2(e, beta, pi)])

NextCrypto ==
    \/ CallElGamalEncryptPoint
    \/ CallProver
    \/ CallSimulatedProver
    \/ CallVerifyProof
    \/ CallCreateVoteWithProof
    \/ CallElGamalComponentsToCiphertext
    \/ CallPerformRound2
    \/ CallVerifyRound2Bundle
    \/ CallSequencesShuffle
    \/ CallDecrypt
    \/ CallFilterForRealVotes
    \/ CallVerifySequenceShuffle
    \/ CallGetSequenceVerifiable

SpecCrypto == CryptoInit /\ [][NextCrypto]_vars

\* C21: for every key pair with Pk = sk*G and every message point M, Decrypt(sk) of
\* ElGamalEncryptPoint(Pk, M) returns M, and the ciphertext and witness returned
\* satisfy C1 = x*G and C2 = M + X with X = x*Pk.
EncryptionRoundTrip ==
    tCall.fn = "ElGamalEncryptPoint" =>
        /\ tRet.dec.err = "nil"
        /\ tRet.dec.M = tCall.M
        /\ tRet.enc.ct.C1 = Mul(tRet.enc.x, G)
        /\ tRet.enc.X = Mul(tRet.enc.x, tCall.Pk)
        /\ tRet.enc.ct.C2 = Add(tCall.M, tRet.enc.X)

\* A message other than the identity is blinded by a shared secret other than the
\* identity and recovered.
EncryptionRoundTripWitness ==
    /\ tCall.fn = "ElGamalEncryptPoint"
    /\ tCall.M # Null /\ tCall.sk > 1 /\ tRet.enc.x > 1
    /\ tRet.enc.ct.C2 # tCall.M /\ tRet.dec.M = tCall.M

\* C22: the transcript (Commit, e, Respond(e) = y - e*x) of a prover that knows x
\* passes VerifyProof for a ciphertext with C1 = x*G and X = x*Pk; the transcript of
\* SimulatedProver.CommitAndRespond passes VerifyProof for the challenge it was
\* given; a transcript whose commitment fails one of the two verification equations
\* is rejected.
SigmaProtocol ==
    /\ tCall.fn = "Prover" =>
          /\ tCall.c_pc.C1 = Mul(tCall.x, G) /\ tCall.X = Mul(tCall.x, tCall.eaPK)
          /\ tRet.response = Sub(tCall.y, Mul(tCall.challenge, tCall.x))
          /\ tRet.ok
    /\ tCall.fn = "SimulatedProver" => tRet.ok
    /\ tCall.fn = "VerifyProof" =>
          LET r == tRet.response
              e == tCall.challenge
              holds1 == tCall.commitment.Y1 = Add(Mul(r, G), Mul(e, tCall.c_pc.C1))
              holds2 == tCall.commitment.Y2 = Add(Mul(r, tCall.eaPK), Mul(e, tCall.X))
          IN  /\ ~(holds1 /\ holds2) => ~tRet.ok
              /\ tRet.ok = (tCall.commitment = Commit(tCall.y, tCall.eaPK))

\* A prover's transcript with a challenge and a secret other than zero.
SigmaProtocolWitness ==
    /\ tCall.fn = "Prover" /\ tRet.ok
    /\ tCall.x > 1 /\ tCall.challenge > 1 /\ tCall.y > 1 /\ tRet.response # tCall.y

\* C23: CreateVoteWithProof encrypts the identity for vote 0 and the generator for
\* vote 1 and returns a proof, made for that ciphertext, that verifies; for any other
\* vote it returns an error and neither a ciphertext nor a proof.
CreateVoteChecked ==
    tCall.fn = "CreateVoteWithProof" =>
        IF tCall.vote \in {0, 1}
          THEN /\ tRet.err = "nil"
               /\ Sub(tRet.encVote.C2, Mul(tCall.sk, tRet.encVote.C1))
                     = (IF tCall.vote = 0 THEN Null ELSE G)
               /\ ElGamalProofVerify(tRet.Proof)
               /\ tRet.Proof.Proof # BadProof
               /\ tRet.Proof.points.C1 = tRet.encVote.C1
               /\ tRet.Proof.points.C2 = tRet.encVote.C2
               /\ tRet.Proof.points.eaPk = tCall.eaPK
          ELSE /\ tRet.err = "vote must be 0 or 1"
               /\ tRet.encVote = Nil
               /\ tRet.Proof = Nil

\* A vote of 2 was refused.
CreateVoteCheckedWitness ==
    /\ tCall.fn = "CreateVoteWithProof" /\ tCall.vote = 2 /\ tCall.sk > 1
    /\ tRet.err # "nil"

\* The shape the sequence shuffle requires of its input.
WellShaped(X, Y) ==
    /\ Len(X) > 0 /\ Len(Y) = Len(X)
    /\ Len(X[1]) > 0
    /\ \A i \in 1..Len(X) : Len(X[i]) = Len(X[1]) /\ Len(Y[i]) = Len(X[1])

\* C24: every size mismatch among the inputs is reported as an error and no output is
\* produced: lists C1 and C2 of different length given to ElGamalComponentsToCiphertext
\* or PerformRound2, a bundle whose proofs or updated points differ in number from the
\* input ciphertexts given to VerifyRound2Bundle, ill-shaped X or Y given to the
\* sequence shuffle.
SizeMismatchReported ==
    /\ tCall.fn = "ElGamalComponentsToCiphertext" /\ Len(tCall.C1s) # Len(tCall.C2s)
          => tRet.err \notin {"nil", "panic: index out of range"} /\ tRet.ciphertexts = <<>>
    /\ tCall.fn = "PerformRound2" /\ Len(tCall.C1s) # Len(tCall.C2s)
          => tRet.err \notin {"nil", "panic: index out of range"} /\ tRet.bundle = Nil
    /\ (/\ tCall.fn = "VerifyRound2Bundle"
        /\ (\/ Len(tCall.bundle.RemaskingProofs) # Len(tCall.prevC1s)
            \/ Len(tCall.bundle.UpdatedC1s) # Len(tCall.prevC1s)
            \/ Len(tCall.bundle.UpdatedC2s) # Len(tCall.prevC1s)))
          => tRet.err \notin {"nil", "panic: index out of range"}
    /\ tCall.fn = "SequencesShuffle" /\ ~WellShaped(tCall.X, tCall.Y)
          => /\ tRet.err \notin {"nil", "panic: index out of range"}
             /\ tRet.Xbar = <<>> /\ tRet.Ybar = <<>> /\ tRet.e = <<>> /\ tRet.proofBytes = Nil

\* C25: Decrypt returns an error and no plaintext when the ciphertext is nil, when
\* either of its components is nil, or when the private key is nil; otherwise it
\* returns C2 - sk*C1 and no error.
DecryptRejectsNil ==
    tCall.fn = "Decrypt" =>
        IF \/ tCall.ct = Nil
           \/ tCall.ct.C1 = NilPoint
           \/ tCall.ct.C2 = NilPoint
           \/ tCall.sk = NilPoint
          THEN tRet.err # "nil" /\ tRet.M = NilPoint /\ tRet.X = NilPoint
          ELSE /\ tRet.err = "nil"
               /\ tRet.M = Sub(tCall.ct.C2, Mul(tCall.sk, tCall.ct.C1))

\* A well-formed ciphertext met a nil private key and was refused.
DecryptRejectsNilWitness ==
    /\ tCall.fn = "Decrypt" /\ tCall.sk = NilPoint
    /\ tCall.ct # Nil /\ tCall.ct.C1 \in Points /\ tCall.ct.C2 \in Points
    /\ tRet.err # "nil"

\* Whether the published result of member i passes the proof check of its back-end
\* against (the input of member i, the output of member i).
LinkVerifies(i) ==
    LET pk == CollectivePK(sShares)
        r == sChain[i]
        e == deriveNonInteractiveChallenge(pk, InputX(i), InputY(i), r.ShuffledC1s, r.ShuffledC2s)
        v == GetSequenceVerifiable(InputX(i), InputY(i), r.ShuffledC1s, r.ShuffledC2s, e)
    IN  IF sBackend = "Neff"
          THEN verifySequenceShuffle(pk, InputX(i), InputY(i), r)
          ELSE HashVerify("BayerGroth", "Shuffle", ShuffleStatement(v, pk), r.Proof)

\* C26: in the shuffle chain a member shuffles the previous member's output only
\* after that member's proof has verified against its input and output, and the chain
\* of EAMembers results is returned only when every link, the last included, has
\* verified; a link that fails gives an error and no chain.
ShuffleChainOrder ==
    /\ \A i \in 1..(Len(sChain) - 1) : LinkVerifies(i)
    /\ sPc = "done" => Len(sChain) = EAMembers /\ \A i \in 1..EAMembers : LinkVerifies(i)

(* ------------------------------------------------------------------ *)
(* GenerateDeterministicTags, one loop iteration at a time             *)
(* ------------------------------------------------------------------ *)
\* The entry of GenerateDeterministicTags: an empty batch returns at once; otherwise
\* performRound1Chain copies the initial C2s, kept here in dTags while the chains run.
GenerateBegin ==
    /\ dPc = "start"
    /\ IF Len(dC1s) = 0
         THEN dTags' = <<>> /\ dProof' = NoProof /\ dPc' = "generated"
         ELSE dTags' = dC2s /\ dProof' = NoProof /\ dPc' = "round1"
    /\ UNCHANGED <<dLog, dTalliers, dPlain, dC1s, dC2s, dChange, dResult, shVars, elVars, mapVars, decVars>>

\* One iteration of the loop of performRound1Chain: the next tallier makes its
\* bundle, it is stored, and its commitment is added to every current C2.
Round1Step ==
    /\ dPc = "round1"
    /\ LET i == Len(dProof.Round1Bundles) + 1
           bundle == PerformRound1(dTalliers[i])
       IN  /\ dProof' = [dProof EXCEPT !.Round1Bundles = Append(@, bundle)]
           /\ dTags' = [j \in 1..Len(dTags) |-> Add(dTags[j], bundle.PublicCommitment)]
           /\ dLog' = Append(dLog, <<"round1", i>>)
           /\ dPc' = IF i = Len(dTalliers) THEN "round2" ELSE "round1"
    /\ UNCHANGED <<dTalliers, dPlain, dC1s, dC2s, dChange, dResult, shVars, elVars, mapVars, decVars>>

\* One iteration of the loop of performRound2Chain: the next tallier re-masks the
\* current ciphertexts, its bundle is stored, and its output becomes the input of
\* the next.
Round2Step ==
    /\ dPc = "round2"
    /\ LET i == Len(dProof.Round2Bundles) + 1
           currentC1s == IF i = 1 THEN dC1s ELSE dProof.Round2Bundles[i - 1].UpdatedC1s
           bundle == PerformRound2(dTalliers[i], currentC1s, dTags)
       IN  /\ dProof' = [dProof EXCEPT !.Round2Bundles = Append(@, bundle)]
           /\ dTags' = bundle.UpdatedC2s
           /\ dLog' = Append(dLog, <<"round2", i>>)
           /\ dPc' = IF i = Len(dTalliers) THEN "generated" ELSE "round2"
    /\ UNCHANGED <<dTalliers, dPlain, dC1s, dC2s, dChange, dResult, shVars, elVars, mapVars, decVars>>

\* The transcript handed to the verifier differs from the generated one in its
\* structure: it was made by the first talliers only, it lacks the last Round 2 bundle
\* or every Round 1 bundle, its last Round 2 bundle comes twice, its bundles come in
\* reversed order, or its bundles carry each other's identities.
ChangeStructure ==
    /\ dPc = "generated" /\ Len(dC1s) > 0
    /\ \/ \E k \in 0..(Len(dTalliers) - 1) :
             /\ dProof' = GenerateDeterministicTags(dC1s, dC2s, SubSeq(dTalliers, 1, k)).proof
             /\ dChange' = "missing"
       \/ /\ dProof' = [dProof EXCEPT !.Round2Bundles = SubSeq(@, 1, Len(@) - 1)]
          /\ dChange' = "missing"
       \/ /\ dProof' = [dProof EXCEPT !.Round1Bundles = <<>>]
          /\ dChange' = "missing"
       \/ /\ dProof' = [dProof EXCEPT !.Round2Bundles = Append(@, @[Len(@)])]
          /\ dChange' = "extra"
       \/ /\ dProof' = [Round1Bundles |-> [i \in 1..Len(dProof.Round1Bundles) |->
                                              dProof.Round1Bundles[Len(dProof.Round1Bundles) + 1 - i]],
                        Round2Bundles |-> [i \in 1..Len(dProof.Round2Bundles) |->
                                              dProof.Round2Bundles[Len(dProof.Round2Bundles) + 1 - i]]]
          /\ dChange' = "order"
       \/ /\ dProof' = [Round1Bundles |-> [i \in 1..Len(dProof.Round1Bundles) |->
                                              [dProof.Round1Bundles[i] EXCEPT
                                                 !.TallierID = Len(dTalliers) + 1 - @]],
                        Round2Bundles |-> [i \in 1..Len(dProof.Round2Bundles) |->
                                              [dProof.Round2Bundles[i] EXCEPT
                                                 !.TallierID = Len(dTalliers) + 1 - @]]]
          /\ dChange' = "identity"
    /\ dPc' = "changed"
    /\ UNCHANGED <<dLog, dTalliers, dPlain, dC1s, dC2s, dTags, dResult, shVars, elVars, mapVars, decVars>>

NextChain ==
    \/ GenerateBegin
    \/ Round1Step
    \/ Round2Step
    \/ ChangeStructure
    \/ DDTVerify

SpecChain == DDTInit /\ [][NextChain]_vars

\* The iterations compute what GenerateDeterministicTags returns.
ChainAgrees ==
    dPc = "generated" =>
        [tags |-> dTags, proof |-> dProof] = GenerateDeterministicTags(dC1s, dC2s, dTalliers)

\* Every Round 1 bundle is produced before any Round 2 bundle, and within a round the
\* bundles are produced in member order.
RoundsInOrder ==
    /\ \A a, b \in 1..Len(dLog) :
          /\ dLog[a][1] = "round2" /\ dLog[b][1] = "round1" => b < a
          /\ a < b /\ dLog[a][1] = dLog[b][1] => dLog[a][2] < dLog[b][2]
    /\ \A i \in 1..Len(dProof.Round1Bundles) : dProof.Round1Bundles[i].TallierID = dTalliers[i].ID
    /\ \A i \in 1..Len(dProof.Round2Bundles) : dProof.Round2Bundles[i].TallierID = dTalliers[i].ID
    /\ Len(dProof.Round2Bundles) > 0 => Len(dProof.Round1Bundles) = Len(dTalliers)

\* C27: in GenerateDeterministicTags every member's Round 1 bundle is produced before
\* any member's Round 2 bundle, within a round the bundles are produced in member
\* order, and a member produces its Round 2 bundle only after the previous member's
\* Round 2 bundle exists and has been verified.
DDTOrdering ==
    /\ RoundsInOrder
    /\ \A a \in 1..Len(dLog) :
          dLog[a][1] = "round2" /\ dLog[a][2] > 1 =>
             /\ \E b \in 1..(a - 1) : dLog[b] = <<"round2", dLog[a][2] - 1>>
             /\ \E c \in 1..(a - 1) : dLog[c] = <<"verify2", dLog[a][2] - 1>>

\* What a stage that has just run without a fault has read: the tags of stages 2 and
\* 4 are made from the output of the last member of the shuffle before them, stage 5
\* filters the last member's shuffled votes by the tags of stages 2 and 4, stage 6
\* decrypts what stage 5 retained and stage 7 counts what stage 6 decrypted.
StageReadsLastOutput ==
    LET reg == tally.RegRecordsShuffled[EAMembers]
        vote == tally.VoteRecordsShuffled[EAMembers]
    IN  /\ tally'.stage = 2 =>
              tally'.RegCredTags =
                 GenerateDeterministicTags(reg.ShuffledC1s, reg.ShuffledC2s, tally.talliers).tags
        /\ tally'.stage = 4 =>
              tally'.VoteCredTags =
                 GenerateDeterministicTags(vote.ShuffledC1s[1], vote.ShuffledC2s[1], tally.talliers).tags
        /\ tally'.stage = 5 =>
              LET kept == {i \in 1..Len(tally.VoteCredTags) :
                              \E j \in 1..Len(tally.RegCredTags) :
                                 tally.VoteCredTags[i] = tally.RegCredTags[j]}
              IN  tally'.RealEncVotes =
                     [n \in 1..Cardinality(kept) |->
                         LET i == CHOOSE i \in kept : Cardinality({k \in kept : k <= i}) = n
                         IN  [C1 |-> vote.ShuffledC1s[2][i], C2 |-> vote.ShuffledC2s[2][i]]]
        /\ tally'.stage = 6 => tally'.RealDecVotes = decryptVotes(ea, tally.RealEncVotes).votes
        /\ tally'.stage = 7 => tally'.Results = TallyResults(tally.RealDecVotes)

\* C28: RunTally runs its stages in the order 0 to 7, one at a time; a stage starts
\* only when the one before it has finished without error, it reads the final output
\* of the last member of the chain before it, and once a stage has failed no other
\* stage runs.
StagesInOrder ==
    [][/\ tally'.stage # tally.stage =>
             /\ tally'.stage = tally.stage + 1
             /\ tally.err = "nil" /\ fault = "none"
             /\ pc = <<"stage1", "stage2", "stage3", "stage4", "stage5", "stage6", "stage7">>[tally'.stage]
             /\ fault' = "none" => StageReadsLastOutput
       /\ pc \in {"tallied", "panicked"} => tally' = tally /\ pc' = pc]_vars

\* All seven stages have run on ballots of which some were retained.
StagesInOrderWitness ==
    pc = "tallied" /\ tally.stage = 7 /\ tally.err = "nil" /\ Len(tally.RealEncVotes) > 0

\* The positions of the vote tags that equal some registration tag.
Matching == {i \in 1..Len(tCall.VoteCredTags) : \E j \in 1..Len(tCall.RegCredTags) : tCall.VoteCredTags[i] = tCall.RegCredTags[j]}

\* C29: stage 5 retains exactly the shuffled votes at the positions whose vote tag
\* equals some registration tag, in increasing position order: there is an
\* order-preserving one-to-one correspondence between the retained votes and the
\* matching positions.
FilterExact ==
    tCall.fn = "filterForRealVotes" =>
        /\ Len(tRet.realEncVotes) = Cardinality(Matching)
        /\ \A n \in 1..Len(tRet.realEncVotes) :
              \E i \in Matching :
                 /\ Cardinality({k \in Matching : k < i}) = n - 1
                 /\ tRet.realEncVotes[n] = [C1 |-> tCall.last.ShuffledC1s[2][i],
                                            C2 |-> tCall.last.ShuffledC2s[2][i]]

\* Three votes of which the first and the last carry the same registered tag and the
\* second an unregistered one: two were retained.
FilterExactWitness ==
    /\ tCall.fn = "filterForRealVotes"
    /\ Len(tCall.VoteCredTags) = 3 /\ Matching = {1, 3}
    /\ tCall.VoteCredTags[1] = tCall.VoteCredTags[3]
    /\ Len(tRet.realEncVotes) = 2

\* C30: a tag proof VerifyDeterministicTagProof accepts for the talliers holds one
\* Round 1 bundle and one Round 2 bundle per tallier, in tallier order, the two
\* bundles at each position carrying that tallier's identity; a transcript with
\* missing, extra or out-of-order bundles is rejected with an error.
TagProofStructure ==
    dPc = "verified" =>
        /\ dResult = "ok" =>
              /\ Len(dProof.Round1Bundles) = Len(dTalliers)
              /\ Len(dProof.Round2Bundles) = Len(dTalliers)
              /\ \A i \in 1..Len(dTalliers) :
                    /\ dProof.Round1Bundles[i].TallierID = dProof.Round2Bundles[i].TallierID
                    /\ dProof.Round1Bundles[i].TallierID = dTalliers[i].ID
        /\ dChange # "none" => dResult = "error"

\* The credential the shuffled registration record at position j encrypts.
ShuffledRegCredential(j) ==
    LET last == tally.RegRecordsShuffled[EAMembers]
    IN  Decrypt([C1 |-> last.ShuffledC1s[j], C2 |-> last.ShuffledC2s[j]], SumSk(ea, 1)).M

\* C31: within one RunTally the registration tags and the vote tags come from the
\* same talliers with the same one-time secrets and key shares: the commitments of
\* the two transcripts agree, and a shuffled registration record and a shuffled
\* ballot have equal tags exactly when they encrypt the same credential.
TagsAgreeAcrossRuns ==
    tally.stage >= 4 /\ tally.err = "nil" =>
        /\ \A k \in 1..EAMembers :
              /\ tally.RegCredTagsProof.Round1Bundles[k].PublicCommitment
                    = Mul(tally.talliers[k].FreshSecret, G)
              /\ tally.VoteCredTagsProof.Round1Bundles[k].PublicCommitment
                    = Mul(tally.talliers[k].FreshSecret, G)
        /\ \A j \in 1..Len(tally.RegCredTags), i \in 1..Len(tally.VoteCredTags) :
              (tally.RegCredTags[j] = tally.VoteCredTags[i])
                 <=> (ShuffledRegCredential(j) = ShuffledCredential(i))

\* Both tagging runs are done; one ballot shares its tag with a registration record
\* and another ballot's tag is no registration tag.
TagsAgreeAcrossRunsWitness ==
    /\ tally.stage >= 4 /\ tally.err = "nil"
    /\ \E i \in 1..Len(tally.VoteCredTags) : tally.VoteCredTags[i] \in RegTagSet
    /\ \E i \in 1..Len(tally.VoteCredTags) : tally.VoteCredTags[i] \notin RegTagSet

\* The challenge vector obtained by hashing the key, the inputs and the outputs of the
\* result handed to the verifier.
DerivedChallenge ==
    deriveNonInteractiveChallenge(tCall.eaPublicKey, tCall.originalX, tCall.originalY,
                                  tCall.result.ShuffledC1s, tCall.result.ShuffledC2s)

\* C32: the challenge vector with which a sequence-shuffle result is verified is the
\* one obtained by hashing the key, all input sequences and all output sequences: the
\* prover's vector is that one, and a result that carries another vector is rejected
\* by the verifier of either back-end.
ChallengeIsDerived ==
    tCall.fn = "verifySequenceShuffle" =>
        /\ tCall.prover.ChallengeE = DerivedChallenge
        /\ tCall.result.ChallengeE # DerivedChallenge => tRet.err /\ tRet.grothErr

(* ------------------------------------------------------------------ *)
(* A credential that signs several voting entries                       *)
(* ------------------------------------------------------------------ *)
\* Before the tally, the last voter casts one more ballot with one of its
\* credentials, as it cast the first: Flow.CastVote and Ledger.AppendVoteRecord,
\* which appends whatever entry it is given.
CastAgain ==
    /\ pc = "tally" /\ forgery = "none"
    /\ \E k \in 1..Len(voter.materials), vote \in {0, 1} :
          LET m == voter.materials[k]
          IN  /\ ledger' = [ledger EXCEPT !.votes =
                               Append(@, CastVote(m, vote, eaPublicKey, cfg.seed, streamPos))]
              /\ cast' = Append(cast, [real |-> ~m.isTest, vote |-> vote,
                                      cred |-> m.Credential.public])
    /\ streamPos' = streamPos + 2
    /\ forgery' = "again"
    /\ UNCHANGED <<cfg, usedKeys, ea, kiosk, official, printer, voter, pc, tally,
                   auxVars, ddtVars, shVars, mapVars, decVars>>

NextRecast ==
    \/ GenerateEnvelopes
    \/ CreateRealCredential
    \/ CreateTestCredential
    \/ CheckOut
    \/ Activate
    \/ PostCredentials
    \/ CastBallot
    \/ CastAgain
    \/ TallyStart
    \/ TallyStage1
    \/ TallyStage2
    \/ TallyStage3
    \/ TallyStage4
    \/ TallyStage5
    \/ TallyStage6
    \/ TallyStage7

SpecRecast == ElectionInit /\ [][NextRecast]_vars

\* C33: each registered credential admits at most one ballot into the count. For a
\* ledger that passed verification, stage 5 retains no more ballots than there are
\* registration records, also when one credential signed several voting entries.
OneBallotPerCredential ==
    tally.stage >= 5 /\ tally.err = "nil" =>
        Len(tally.RealEncVotes) <= Cardinality(DOMAIN ledger.registration)

\* The registration entry of the voter at the kiosk, once it is written.
CheckedOut == voter.materials # <<>> /\ voter.ID \in DOMAIN ledger.registration

\* C34: whichever material the voter presents at check-out, the real one or a test
\* one, the registration entry written holds the ciphertext created for the voter's
\* real credential, and the activation checks of each of the voter's materials,
\* real and test, pass against that one entry; no check-out or activation fails.
CheckOutEntryIsReal ==
    /\ pc # "failed"
    /\ CheckedOut =>
          LET real == voter.materials[1]
              entry == ledger.registration[voter.ID]
          IN  /\ ~real.isTest
              /\ entry.EncVoterPk = real.Commit.Ciphertext
              /\ Decrypt(entry.EncVoterPk, SumSk(ea, 1)).M = real.Credential.public
              /\ \A k \in 1..Len(voter.materials) : ActivateChecks(voter.materials[k])

\* A voter with a real and a test credential has checked out and activated both.
CheckOutEntryIsRealWitness ==
    /\ CheckedOut /\ pc = "post"
    /\ Len(voter.materials) = 1 + MaxFake /\ MaxFake >= 1
    /\ voter.materials[Len(voter.materials)].isTest
    /\ voter.activated = Len(voter.materials)

(* ------------------------------------------------------------------ *)
(* The tally over the records in another order                          *)
(* ------------------------------------------------------------------ *)
\* The voting entries of the ledger appended in another order: Ledger.AppendVoteRecord
\* keeps arrival order and Ledger.GetVotingRecords returns the slice as it is, so the
\* order of the voting records is the order in which the voters happened to cast.
CastInOtherOrder ==
    /\ pc = "tally" /\ forgery = "none"
    /\ \E order \in Orders(1..Len(ledger.votes)) :
          /\ \E i \in 1..Len(order) : order[i] # i
          /\ ledger' = [ledger EXCEPT !.votes = [i \in 1..Len(order) |-> ledger.votes[order[i]]]]
          /\ cast' = [i \in 1..Len(order) |-> cast[order[i]]]
    /\ forgery' = "reordered"
    /\ UNCHANGED <<cfg, streamPos, usedKeys, ea, kiosk, official, printer, voter, pc, tally,
                   auxVars, ddtVars, shVars, mapVars, decVars>>

NextOrder ==
    \/ GenerateEnvelopes
    \/ CreateRealCredential
    \/ CreateTestCredential
    \/ CheckOut
    \/ Activate
    \/ PostCredentials
    \/ CastBallot
    \/ CastInOtherOrder
    \/ TallyStart
    \/ TallyStage1
    \/ TallyStage2
    \/ TallyStage3
    \/ TallyStage4
    \/ TallyStage5
    \/ TallyStage6
    \/ TallyStage7
    \/ TallyRerun

SpecOrder == ElectionInit /\ [][NextOrder]_vars

\* C35: the final counts are the same for every order in which the registration
\* records are retrieved from the map and for every order of the voting records:
\* two completed tallies of the same entries, whatever the two orders, end with the
\* same counts and the same winner's counts.
CountsIgnoreOrder ==
    \A n \in 1..Len(history) :
       Completed /\ history[n].err = "nil" =>
          /\ ResultAt(tally.Results, 0) = ResultAt(history[n].Results, 0)
          /\ ResultAt(tally.Results, 1) = ResultAt(history[n].Results, 1)

\* Two completed tallies that read the registration records in different orders and
\* the voting records in different orders, with votes for both options counted.
CountsIgnoreOrderWitness ==
    /\ Completed /\ Len(history) = 1 /\ history[1].err = "nil"
    /\ history[1].input.RegRecords # tally.input.RegRecords
    /\ history[1].input.Votes # tally.input.Votes
    /\ ResultAt(tally.Results, 0) = 1 /\ ResultAt(tally.Results, 1) = 1

(* ------------------------------------------------------------------ *)
(* Termination of ForEach and Map                                       *)
(* ------------------------------------------------------------------ *)
\* The caller's goroutine and the workers are goroutines of the Go scheduler, which
\* runs every goroutine that can take a step, and every call of the worker function
\* returns: each step that stays possible is eventually taken.
SpecMapFair ==
    /\ SpecMap
    /\ WF_vars(ReturnEmpty) /\ WF_vars(RunSequential) /\ WF_vars(StartParallel)
    /\ WF_vars(Enqueue) /\ WF_vars(CloseJobs) /\ WF_vars(WorkerTake)
    /\ WF_vars(WorkerFinish) /\ WF_vars(WorkerExit) /\ WF_vars(ReturnParallel)

\* No send waits: the caller finds room in jobs for the next index, and a worker
\* inside a call finds room in errs for its error.
NoSendWaits ==
    /\ (cPc = "enqueue" /\ Sent < Len(cItems)) => Len(cJobs) < ChanCap(Len(cItems))
    /\ \A w \in 1..Len(cWorkers) : cWorkers[w] > 0 => Len(cErrs) < ChanCap(Len(cItems))

\* C36: for every item count, core count and pattern of worker errors, ForEach and
\* Map return once the started worker calls have returned: no send on the job queue
\* or the error queue waits, every worker leaves its loop, and the caller's join
\* completes, so the call always ends.
MapTerminates ==
    /\ []NoSendWaits
    /\ <>(cPc = "done")
    /\ [](cPc = "done" /\ Parallel => \A w \in 1..Len(cWorkers) : cWorkers[w] = -1)

\* A parallel call over the largest slice in which every item failed has returned.
MapTerminatesWitness ==
    /\ cPc = "done" /\ Parallel /\ Len(cItems) = MaxItems
    /\ Len(cErrs) = MaxItems
    /\ cJobs = <<>> /\ cClosed

\* The call is past its choice of path, with items to process.
PathChosen == cPc \in {"enqueue", "wait", "done"} /\ Len(cItems) > 0

\* C37: ForEach and Map run sequentially exactly when the configured core count is at
\* most 1 or there are fewer items than the threshold; the items are then processed
\* in index order, one call after the other, and no item after the first failing one
\* is processed. Otherwise the items are shared by exactly as many workers as cores.
SequentialOrPool ==
    PathChosen =>
       IF cCores <= 1 \/ Len(cItems) < minItemsForParallel
         THEN /\ cPc = "done" /\ cWorkers = <<>> /\ cJobs = <<>>
              /\ LET n == Len(cCalls) \div 2
                 IN  /\ Len(cCalls) = 2 * n /\ n >= 1
                     /\ \A i \in 1..n :
                           /\ cCalls[2 * i - 1] = <<"call", i>>
                           /\ cCalls[2 * i] = <<IF cItems[i].fails THEN "error" ELSE "return", i>>
                     /\ \A i \in 1..(n - 1) : ~cItems[i].fails
                     /\ n < Len(cItems) => cItems[n].fails
         ELSE Len(cWorkers) = cCores

\* A sequential call over the largest slice whose second item failed: the third
\* item was not processed.
SequentialOrPoolWitness ==
    /\ cPc = "done" /\ cCores = 1 /\ Len(cItems) = MaxItems /\ MaxItems >= 3
    /\ ~cItems[1].fails /\ cItems[2].fails
    /\ Len(cCalls) = 4

\* The calls of the worker function on item i so far.
CallsOf(i) == {n \in 1..Len(cCalls) : cCalls[n] = <<"call", i>>}

\* C38: in a parallel region no index is taken twice and no two workers hold the
\* same index, so no two workers write the same result slot of Map; when the region
\* ends without error, every index was taken by exactly one worker and the worker
\* function was invoked exactly once per item.
EachItemOnce ==
    Parallel =>
        /\ \A i \in 1..Len(cItems) : Cardinality(CallsOf(i)) <= 1
        /\ \A n \in 1..Len(cCalls) : cCalls[n][2] \in 1..Len(cItems)
        /\ \A v, w \in 1..Len(cWorkers) :
              (cWorkers[v] > 0 /\ cWorkers[v] = cWorkers[w]) => v = w
        /\ \A w \in 1..Len(cWorkers) : cWorkers[w] > 0 => Cardinality(CallsOf(cWorkers[w])) = 1
        /\ (cPc = "done" /\ cRet.err = "nil") =>
              \A i \in 1..Len(cItems) :
                 /\ Cardinality(CallsOf(i)) = 1
                 /\ Cardinality({n \in 1..Len(cCalls) : cCalls[n] = <<"return", i>>}) = 1

\* A parallel region over the largest slice ended without error after two workers
\* were inside the worker function at the same time.
EachItemOnceWitness ==
    /\ cPc = "done" /\ cRet.err = "nil" /\ Parallel /\ cCores = MaxCores
    /\ Len(cItems) = MaxItems
    /\ \E n \in 1..(Len(cCalls) - 1) : cCalls[n][1] = "call" /\ cCalls[n + 1][1] = "call"

\* The items whose call of the worker function returned an error.
FailedCalls == {cCalls[n][2] : n \in {m \in 1..Len(cCalls) : cCalls[m][1] = "error"}}

\* C39: ForEach and Map return an error if and only if at least one call of the
\* worker function returned an error; the error returned is one that some call
\* returned, and Map returns no results together with an error. This holds for
\* every input length, the empty input included.
ErrorIffWorkerError ==
    cPc = "done" =>
        /\ (cRet.err # "nil") <=> (FailedCalls # {})
        /\ cRet.err # "nil" =>
              /\ cRet.from \in FailedCalls
              /\ cRet.err = WorkerError(cOp)
              /\ cRet.results = <<>>

\* The e-weighted sum over the sequences of Z at position i, term by term.
Weighted(e, Z, i) == (e[1] * Z[1][i] + e[2] * Z[2][i]) % Q

\* C40: witness compression. When every sequence j is output as
\* Xbar[j][i] = X[j][pi(i)] + r[j][pi(i)]*G and Ybar[j][i] = Y[j][pi(i)] + r[j][pi(i)]*Pk
\* under one permutation pi, the consolidated randomness R_i = sum_j e_j*r[j][pi(i)]
\* satisfies XDown[i] = XUp[pi(i)] + R_i*G and YDown[i] = YUp[pi(i)] + R_i*Pk at every
\* position i, where XUp, YUp, XDown, YDown are the e-weighted sums of the sequences.
WitnessCompression ==
    tCall.fn = "GetSequenceVerifiable" =>
        \A i \in 1..Len(tCall.pi) :
           LET src == tCall.pi[i]
           IN  /\ tRet.beta2[i] = Weighted(tCall.e, tCall.beta, src)
               /\ tRet.XUp[src] = Weighted(tCall.e, tCall.X, src)
               /\ tRet.YUp[src] = Weighted(tCall.e, tCall.Y, src)
               /\ tRet.XDown[i] = Weighted(tCall.e, tCall.Xbar, i)
               /\ tRet.YDown[i] = Weighted(tCall.e, tCall.Ybar, i)
               /\ tRet.XDown[i] = Add(tRet.XUp[src], Mul(tRet.beta2[i], G))
               /\ tRet.YDown[i] = Add(tRet.YUp[src], Mul(tRet.beta2[i], tCall.h))

\* Two sequences shuffled under a permutation that moves every position, with
\* different weights and different randomness for the two positions of a sequence.
WitnessCompressionWitness ==
    /\ tCall.fn = "GetSequenceVerifiable"
    /\ Len(tCall.pi) = MaxBatch /\ MaxBatch >= 2
    /\ \A i \in 1..Len(tCall.pi) : tCall.pi[i] # i
    /\ tCall.e[1] # tCall.e[2]
    /\ tCall.beta[1][1] # tCall.beta[1][2]
    /\ tCall.X[1] # tCall.X[2]
    /\ tRet.beta2[1] # tRet.beta2[2]

====
